---- MODULE Spec2Model ----
(***************************************************************************)
(* A model of pgsqlasync2fast_fastapi: the DatabaseManager registry        *)
(* (connection.py), the FastAPI glue (dependencies.py), the settings       *)
(* (settings.py) and the administrative operations (database.py).          *)
(*                                                                         *)
(* Scheduling is asyncio's: a coroutine runs without interruption from one *)
(* await that suspends to the next, so every action below is the code      *)
(* between two suspension points.                                          *)
(***************************************************************************)
EXTENDS Integers, Sequences, FiniteSets, Bags, TLC

\* ------------------------------------------------------------------ bounds
\* Number of coroutines that may be suspended in an await at the same time.
MaxInFlight == 2
\* Total number of engines create_async_engine may build in one run.
MaxEngines == 2
\* Number of requests served through get_db_session in one run.
MaxRequests == 2
\* Number of database.py operations suspended at an await at one time.
MaxCalls == 2
\* Number of operations main calls in one run.
MaxSeen == 2

Requests == 1..MaxRequests

\* ------------------------------------------------------------ Python values
\* Python's None, as the value of an Optional[str] argument.
None == "None"
\* The connection names a caller may pass: None, the empty string, the two
\* configured names and a name no configuration declares.
ArgNames == {None, "", "default", "admin", "ghost"}

\* An Optional object (Optional[DatabaseSettings], Optional[DatabaseManager]):
\* the empty sequence for None, a sequence of one for an object.
Nothing == << >>
Some(x) == <<x>>

\* Error kinds raised by the code.
UnknownConnection == "ValueError: Database connection not found"
DictChangedSize == "RuntimeError: dictionary changed size during iteration"
DisposeFailure == "dispose failed"

\* ------------------------------------------------ insertion-ordered dicts
\* A Python dict is a sequence of <<key, value>> entries in insertion order.
Keys(d) == {d[i][1] : i \in 1..Len(d)}
Values(d) == {d[i][2] : i \in 1..Len(d)}
Has(d, k) == k \in Keys(d)
Get(d, k) == LET i == CHOOSE j \in 1..Len(d) : d[j][1] = k IN d[i][2]
Put(d, k, v) ==
    IF Has(d, k)
    THEN [i \in 1..Len(d) |-> IF d[i][1] = k THEN <<k, v>> ELSE d[i]]
    ELSE Append(d, <<k, v>>)

\* ------------------------------------------------------------ configuration
\* One DatabaseConnectionSettings entry of DatabaseSettings.connections.
\* echo is the input's value for the field, as an Optional: left out it
\* takes the default False, and echo_set tells that it was given.
ConnEcho(n, su, echo) ==
    [name |-> n, is_superuser |-> su,
     echo |-> IF echo = << >> THEN FALSE ELSE echo[1],
     echo_set |-> echo # << >>]
Conn(n, su) == ConnEcho(n, su, << >>)
\* DatabaseSettings: connections in iteration order, default_connection and
\* the global echo, False unless changed.
Settings(conns, dflt) ==
    [connections |-> conns, default_connection |-> dflt, echo |-> FALSE]

ConnectionNames(cfg) == {cfg.connections[i].name : i \in 1..Len(cfg.connections)}

\* The global settings a run may start from: two connections, and a
\* configuration whose default_connection names no connection.
RegistryConfigs ==
    { Settings(<<Conn("default", FALSE), Conn("admin", TRUE)>>, "default"),
      Settings(<<Conn("admin", FALSE)>>, "default") }

\* A configuration a caller may pass to get_manager / startup_database
\* instead of the global settings.
CustomConfigs ==
    { Settings(<<Conn("default", TRUE)>>, "default") }
\* The values of an Optional[DatabaseSettings] argument.
ConfigArgs == {Nothing} \cup {Some(c) : c \in CustomConfigs}

\* ------------------------------------------------------------------- state
VARIABLES
    settings,         \* settings.py: the module-level DatabaseSettings
    load,             \* settings.py: a DatabaseConnectionSettings being loaded
    importing,        \* settings.py: the module's initialisation, lines 177-198
    _manager,         \* connection.py: the global singleton, None or a manager
    _engines,         \* DatabaseManager._engines: name -> engine
    _session_makers,  \* DatabaseManager._session_makers: name -> factory
    engineLog,        \* every engine create_async_engine has built, by id
    disposed,         \* ids of the engines whose dispose() has completed
    inflight,         \* the bag of coroutines suspended in an await
    clears,           \* how often close_all has emptied a non-empty cache
    last,             \* the outcome of the registry call that finished last
    sessionLog,       \* every AsyncSession a session factory has made, by id
    req,              \* per request: its get_db_session generator
    databases,        \* pg_database on the server: the names in datname
    connected,        \* the databases other clients hold a session on
    calls,            \* the database.py coroutines suspended at an await
    result,           \* the outcome of the database.py call that just finished
    program,          \* who calls database.py: "main" awaits each operation
                      \* in turn, "tasks" are coroutines running concurrently
    seen,             \* what main has seen of its operations, in order
    checkedout        \* the connections checked out of the engines' pools by
                      \* database.py and health_check: a bag of engine ids

\* The registry and the coroutines using it.
registryVars == <<settings, load, importing, _manager, _engines, _session_makers, engineLog,
                  disposed, inflight, clears, last>>
\* The requests served through get_db_session.
sessionVars == <<sessionLog, req>>

\* The server and the administrative operations of database.py.
adminVars == <<databases, connected, calls, result, program, seen>>

vars == <<registryVars, sessionVars, adminVars, checkedout>>

\* The outcome of a finished call: the value returned or the error raised.
\* arg is the connection name the call was made with (the name it resolved
\* to when the call comes back from an await), eng the engine returned (or bound to the factory or session returned),
\* err the error raised or, for health_check, caught; cached tells that the
\* call was answered from the cache.
Ret(op, arg, kind, eng, bool, err, cached) ==
    [op |-> op, arg |-> arg, kind |-> kind, eng |-> eng, bool |-> bool,
     err |-> err, cached |-> cached, names |-> << >>]
NoRet == Ret("", None, "none", 0, FALSE, "", FALSE)

\* A suspended coroutine: the await it is in and its locals.
Frame(at, op, eng, pos, used, idx) ==
    [at |-> at, op |-> op, eng |-> eng, pos |-> pos, used |-> used, idx |-> idx]

\* A connection of engine eng is taken from its pool, or given back to it.
CheckedOut(held, eng) == held (+) SetToBag({eng})
Released(held, eng) == held (-) SetToBag({eng})

\* Number of engines ever built for a connection name.
Constructed(name) ==
    Cardinality({i \in 1..Len(engineLog) : engineLog[i].name = name})

\* ------------------------------------------------------------- settings.py
\* The name used as passed, without `or self.default_connection`.
OrDefault_as_passed(cfg, connection_name) == connection_name

\* connection_name or self.default_connection: None and "" are both falsy.
OrDefault(cfg, connection_name) ==
    IF connection_name \in {None, ""} THEN cfg.default_connection
    ELSE connection_name

\* get_connection falling back to the first configured connection instead of
\* raising for a name that is not configured.
get_connection_fallback(cfg, connection_name) ==
    LET name == OrDefault(cfg, connection_name) IN
    IF name \notin ConnectionNames(cfg) /\ cfg.connections = << >>
    THEN [kind |-> "raise", err |-> UnknownConnection, conn |-> Conn(name, FALSE)]
    ELSE [kind |-> "value", err |-> "",
          conn |-> IF name \in ConnectionNames(cfg)
                   THEN LET i == CHOOSE j \in 1..Len(cfg.connections) :
                                     cfg.connections[j].name = name
                        IN cfg.connections[i]
                   ELSE cfg.connections[1]]

\* DatabaseSettings.get_connection: the entry, or ValueError.
get_connection(cfg, connection_name) ==
    LET name == OrDefault(cfg, connection_name) IN
    IF name \notin ConnectionNames(cfg)
    THEN [kind |-> "raise", err |-> UnknownConnection, conn |-> Conn(name, FALSE)]
    ELSE [kind |-> "value", err |-> "",
          conn |-> LET i == CHOOSE j \in 1..Len(cfg.connections) :
                                cfg.connections[j].name = name
                   IN cfg.connections[i]]

\* The defaults of port, pool_size and max_overflow.
port_default == 5432
pool_size_default == 5
max_overflow_default == 10

\* A validator's outcome: the value returned or ValueError.
Valid(v) == [kind |-> "value", v |-> v]
Invalid(v) == [kind |-> "raise", v |-> v]

\* validate_port with no lower bound.
validate_port_unbounded_below(v) ==
    IF ~(v <= 65535) THEN Invalid(v) ELSE Valid(v)

validate_port(v) ==
    IF ~(1 <= v /\ v <= 65535) THEN Invalid(v) ELSE Valid(v)

validate_pool_size(v) ==
    IF v <= 0 THEN Invalid(v) ELSE Valid(v)

validate_max_overflow(v) ==
    IF v < 0 THEN Invalid(v) ELSE Valid(v)

\* The input of a connection: each field given (Some) or left out (Nothing).
Env(port, pool_size, max_overflow) ==
    [port |-> port, pool_size |-> pool_size, max_overflow |-> max_overflow]

\* A connection being loaded: at "env" its input, at "loaded" the
\* DatabaseConnectionSettings made from it, at "rejected" the fields named
\* in the ValidationError, at "engine" the pool built from it.
Load(at, env, conn, errors) ==
    [at |-> at, env |-> env, conn |-> conn, errors |-> errors]
NoLoad == Load("none", Env(Nothing, Nothing, Nothing), Nothing, {})

\* DatabaseConnectionSettings(**env): a field left out takes its default,
\* which pydantic does not validate; the validator of every field given
\* runs, and the ValidationError names every field whose validator raised.
DatabaseConnectionSettings(env) ==
    LET port == IF env.port = Nothing THEN Valid(port_default)
                ELSE validate_port(env.port[1])
        pool_size == IF env.pool_size = Nothing THEN Valid(pool_size_default)
                     ELSE validate_pool_size(env.pool_size[1])
        max_overflow == IF env.max_overflow = Nothing
                        THEN Valid(max_overflow_default)
                        ELSE validate_max_overflow(env.max_overflow[1])
        errors == (IF port.kind = "raise" THEN {"port"} ELSE {})
                  \cup (IF pool_size.kind = "raise" THEN {"pool_size"} ELSE {})
                  \cup (IF max_overflow.kind = "raise" THEN {"max_overflow"} ELSE {})
    IN  IF errors # {}
        THEN Load("rejected", env, Nothing, errors)
        ELSE Load("loaded", env,
                  Some([port |-> port.v, pool_size |-> pool_size.v,
                        max_overflow |-> max_overflow.v]), {})

\* A connection declared in the environment: DB_CONNECTIONS__<NAME>__HOST
\* given or not, its is_superuser flag and its numeric fields.
Declared(name, host, is_superuser, env) ==
    [name |-> name, host |-> host, is_superuser |-> is_superuser, env |-> env]

\* The fields of a declared connection that the ValidationError names: a
\* required field that is missing, and the fields whose validator raised.
FieldErrors(d) ==
    (IF d.host = Nothing THEN {"host"} ELSE {})
    \cup DatabaseConnectionSettings(d.env).errors

\* What DatabaseSettings() yields: the settings, or the ValidationError with
\* the connections and fields it names.
Loaded(kind, value, errors) == [kind |-> kind, value |-> value, errors |-> errors]

\* The declared connections as the entries of DatabaseSettings.connections.
Connections(environ) ==
    [i \in 1..Len(environ) |-> Conn(environ[i].name, environ[i].is_superuser)]

\* DatabaseSettings() keeping the connections that validate and leaving out
\* the ones that do not.
DatabaseSettings_skipping_invalid(environ) ==
    LET valid(d) == FieldErrors(d) = {} IN
    Loaded("value", Settings(Connections(SelectSeq(environ, valid)), "default"), {})

\* DatabaseSettings(): pydantic validates the whole connections dict and
\* raises one ValidationError when any entry of it fails.
DatabaseSettings(environ) ==
    LET errors == UNION {{<<environ[i].name, f>> : f \in FieldErrors(environ[i])} :
                             i \in 1..Len(environ)}
    IN  IF errors # {}
        THEN Loaded("raise", Settings(<< >>, "default"), errors)
        ELSE Loaded("value", Settings(Connections(environ), "default"), {})

\* The module's initialisation: at "import" before the try, at "except" in
\* the handler, at "ready" with `settings` bound, at "failed" when the
\* exception left the module; environ is the environment it reads, printed
\* the lines it printed.
Importing(at, environ, printed) ==
    [at |-> at, environ |-> environ, printed |-> printed]
\* The module as the other specifications meet it: imported, settings bound.
Imported == Importing("ready", << >>, {})
\* `settings` while the name is not bound.
Unbound == Settings(<< >>, "unbound")

\* ----------------------------------------------------------- connection.py
\* echo = conn_settings.echo if conn_settings.echo else self.config.echo
Echo(cfg, conn_settings) ==
    IF conn_settings.echo THEN conn_settings.echo ELSE cfg.echo

\* What a synchronous manager call yields: its outcome and the caches after.
Outcome(kind, eng, err, cached, engines, makers, log) ==
    [kind |-> kind, eng |-> eng, err |-> err, cached |-> cached,
     engines |-> engines, makers |-> makers, log |-> log]

\* get_engine without the lookup of lines 52-54: every call builds an engine.
get_engine_uncached(self, connection_name) ==
    LET cfg == self.config
        name == OrDefault(cfg, connection_name)
        c == get_connection(cfg, name)
        e == Len(engineLog) + 1
    IN  IF c.kind = "raise"
        THEN Outcome("raise", 0, c.err, FALSE, _engines, _session_makers, engineLog)
        ELSE Outcome("value", e, "", FALSE, Put(_engines, name, e),
                     Put(_session_makers, name, e),
                     Append(engineLog, [name |-> name, echo |-> Echo(cfg, c.conn)]))

\* get_engine caching under the argument as passed instead of the resolved
\* name: None and "default" then name two cache slots.
get_engine_keyed_by_argument(self, connection_name) ==
    LET cfg == self.config
        name == OrDefault(cfg, connection_name)
        c == get_connection(cfg, name)
        e == Len(engineLog) + 1
    IN  IF Has(_engines, connection_name)
        THEN Outcome("value", Get(_engines, connection_name), "", TRUE,
                     _engines, _session_makers, engineLog)
        ELSE IF c.kind = "raise"
        THEN Outcome("raise", 0, c.err, FALSE, _engines, _session_makers, engineLog)
        ELSE Outcome("value", e, "", FALSE, Put(_engines, connection_name, e),
                     Put(_session_makers, connection_name, e),
                     Append(engineLog, [name |-> name, echo |-> Echo(cfg, c.conn)]))

\* DatabaseManager.get_engine.
get_engine(self, connection_name) ==
    LET cfg == self.config
        name == OrDefault(cfg, connection_name)
        c == get_connection(cfg, name)
        e == Len(engineLog) + 1
    IN  IF Has(_engines, name)
        THEN Outcome("value", Get(_engines, name), "", TRUE,
                     _engines, _session_makers, engineLog)
        ELSE IF c.kind = "raise"
        THEN Outcome("raise", 0, c.err, FALSE, _engines, _session_makers, engineLog)
        ELSE Outcome("value", e, "", FALSE, Put(_engines, name, e),
                     Put(_session_makers, name, e),
                     Append(engineLog, [name |-> name, echo |-> Echo(cfg, c.conn)]))

\* DatabaseManager.get_session_maker: the factory, named by the engine it is
\* bound to.
get_session_maker(self, connection_name) ==
    LET name == OrDefault(self.config, connection_name)
        r == get_engine(self, name)
    IN  IF Has(_session_makers, name)
        THEN Outcome("value", Get(_session_makers, name), "", TRUE,
                     _engines, _session_makers, engineLog)
        ELSE IF r.kind = "raise" THEN r
        ELSE Outcome("value", Get(r.makers, name), "", r.cached,
                     r.engines, r.makers, r.log)

\* DatabaseManager.is_superuser_connection
is_superuser_connection(self, connection_name) ==
    LET c == get_connection(self.config, connection_name) IN
    [kind |-> c.kind, err |-> c.err, bool |-> c.conn.is_superuser]

\* DatabaseManager.list_connections: the keys of the connections dict, in
\* the dict's order.
list_connections(self) ==
    [i \in 1..Len(self.config.connections) |-> self.config.connections[i].name]

\* DatabaseManager(config): a manager, the id-th one constructed in the
\* process.
DatabaseManager(config, id) == [config |-> config, id |-> id]

\* get_manager building a manager from the configuration it is given
\* whenever it is given one.
get_manager_rebuilding(config) ==
    IF _manager = Nothing
    THEN Some(DatabaseManager(IF config = Nothing THEN settings ELSE config[1], 1))
    ELSE IF config = Nothing THEN _manager
    ELSE Some(DatabaseManager(config[1], _manager[1].id + 1))

\* get_manager(config): the singleton, built from config or the global
\* settings on the first call and returned as it is on every later one.
get_manager(config) ==
    IF _manager = Nothing
    THEN Some(DatabaseManager(IF config = Nothing THEN settings ELSE config[1], 1))
    ELSE _manager

\* The caches and the log after a synchronous manager call, as long as
\* create_async_engine stays within the model's bound.
Apply(r) ==
    /\ Len(r.log) <= MaxEngines
    /\ _engines' = r.engines
    /\ _session_makers' = r.makers
    /\ engineLog' = r.log

\* A call returns or raises: `rest` is the bag of the other coroutines.
Finish(rest, r) ==
    /\ inflight' = rest
    /\ last' = r
    /\ UNCHANGED <<sessionVars, adminVars>>

\* A call reaches an await that suspends it.
Suspend(rest, f) ==
    /\ BagCardinality(rest) < MaxInFlight
    /\ inflight' = rest (+) SetToBag({f})
    /\ last' = NoRet
    /\ UNCHANGED <<sessionVars, adminVars>>

\* The bag without one copy of the frame f.
Without(f) == inflight (-) SetToBag({f})

Exists == _manager # Nothing

GetManager(config) ==
    /\ _manager' = get_manager(config)
    /\ Finish(inflight, Ret("get_manager", None, "value", 0, FALSE, "", Exists))
    /\ UNCHANGED <<settings, load, importing, checkedout, _engines, _session_makers, engineLog, disposed, clears>>

\* get_db_manager(config), FastAPI having resolved config to the settings.
GetDbManager ==
    /\ _manager' = get_manager(Some(settings))
    /\ Finish(inflight, Ret("get_db_manager", None, "value", 0, FALSE, "", Exists))
    /\ UNCHANGED <<settings, load, importing, checkedout, _engines, _session_makers, engineLog, disposed, clears>>

\* manager.get_engine(connection_name)
GetEngine(connection_name) ==
    /\ Exists
    /\ LET r == get_engine(_manager[1], connection_name) IN
        /\ Apply(r)
        /\ Finish(inflight, Ret("get_engine", connection_name, r.kind, r.eng,
                                FALSE, r.err, r.cached))
    /\ UNCHANGED <<settings, load, importing, checkedout, _manager, disposed, clears>>

\* manager.get_session_maker(connection_name)
GetSessionMaker(connection_name) ==
    /\ Exists
    /\ LET r == get_session_maker(_manager[1], connection_name) IN
        /\ Apply(r)
        /\ Finish(inflight, Ret("get_session_maker", connection_name, r.kind,
                                r.eng, FALSE, r.err, r.cached))
    /\ UNCHANGED <<settings, load, importing, checkedout, _manager, disposed, clears>>

\* await manager.get_session(connection_name): the coroutine has no await of
\* its own, so it runs in one step; the session is named by its bound engine.
GetSession(connection_name) ==
    /\ Exists
    /\ LET r == get_session_maker(_manager[1], connection_name) IN
        /\ Apply(r)
        /\ Finish(inflight, Ret("get_session", connection_name, r.kind, r.eng,
                                FALSE, r.err, r.cached))
    /\ UNCHANGED <<settings, load, importing, checkedout, _manager, disposed, clears>>

\* manager.is_superuser_connection(connection_name), answered by way of
\* the engine of the connection.
IsSuperuserConnection_by_engine(connection_name) ==
    /\ Exists
    /\ LET r == get_engine(_manager[1], connection_name)
           b == is_superuser_connection(_manager[1], connection_name) IN
        /\ Apply(r)
        /\ Finish(inflight, Ret("is_superuser_connection", connection_name,
                                b.kind, 0, b.kind = "value" /\ b.bool, b.err, FALSE))
    /\ UNCHANGED <<settings, load, importing, checkedout, _manager, disposed, clears>>

\* manager.is_superuser_connection(connection_name)
IsSuperuserConnection(connection_name) ==
    /\ Exists
    /\ LET b == is_superuser_connection(_manager[1], connection_name) IN
        Finish(inflight, Ret("is_superuser_connection", connection_name,
                             b.kind, 0, b.kind = "value" /\ b.bool, b.err, FALSE))
    /\ UNCHANGED <<settings, load, importing, checkedout, _manager, _engines, _session_makers, engineLog,
                   disposed, clears>>

\* manager.list_connections()
ListConnections ==
    /\ Exists
    /\ Finish(inflight,
              [Ret("list_connections", None, "value", 0, FALSE, "", FALSE)
                   EXCEPT !.names = list_connections(_manager[1])])
    /\ UNCHANGED <<settings, load, importing, checkedout, _manager, _engines, _session_makers, engineLog,
                   disposed, clears>>

\* ------------------------------------------------ DatabaseManager.close_all

\* close_all clearing the engines and leaving the session factories.
CloseAllNext_engines_only(rest, op, pos, used) ==
    IF Len(_engines) # used
    THEN /\ Finish(rest, Ret(op, None, "raise", 0, FALSE, DictChangedSize, FALSE))
         /\ UNCHANGED <<_engines, _session_makers, clears>>
    ELSE IF pos >= Len(_engines)
    THEN /\ _engines' = << >>
         /\ UNCHANGED _session_makers
         /\ clears' = IF _engines = << >> THEN clears ELSE clears + 1
         /\ Finish(rest, Ret(op, None, "value", 0, FALSE, "", FALSE))
    ELSE /\ Suspend(rest, Frame("dispose", "close_all", _engines[pos + 1][2],
                                pos + 1, used, 0))
         /\ UNCHANGED <<_engines, _session_makers, clears>>

\* The for loop's next() on the dict's value iterator, after `pos` values were
\* taken from a dict that held `used` entries when the loop began: CPython
\* raises when the dict's size differs, stops when pos is past the entries and
\* otherwise yields the entry at pos.  On exhaustion both caches are cleared
\* and close_all returns; on a value the coroutine awaits engine.dispose().
\* shutdown_database awaits close_all and adds nothing after it, so once
\* suspended it is a close_all in flight.
CloseAllNext(rest, op, pos, used) ==
    IF Len(_engines) # used
    THEN /\ Finish(rest, Ret(op, None, "raise", 0, FALSE, DictChangedSize, FALSE))
         /\ UNCHANGED <<_engines, _session_makers, clears>>
    ELSE IF pos >= Len(_engines)
    THEN /\ _engines' = << >>
         /\ _session_makers' = << >>
         /\ clears' = IF _engines = << >> THEN clears ELSE clears + 1
         /\ Finish(rest, Ret(op, None, "value", 0, FALSE, "", FALSE))
    ELSE /\ Suspend(rest, Frame("dispose", "close_all", _engines[pos + 1][2],
                                pos + 1, used, 0))
         /\ UNCHANGED <<_engines, _session_makers, clears>>

\* await manager.close_all(): up to the first engine.dispose().
CloseAll ==
    /\ Exists
    /\ CloseAllNext(inflight, "close_all", 0, Len(_engines))
    /\ UNCHANGED <<settings, load, importing, checkedout, _manager, engineLog, disposed>>

\* await shutdown_database(): get_manager(), then close_all.
ShutdownDatabase ==
    /\ _manager' = get_manager(Nothing)
    /\ CloseAllNext(inflight, "shutdown_database", 0, Len(_engines))
    /\ UNCHANGED <<settings, load, importing, checkedout, engineLog, disposed>>

\* engine.dispose() comes back, having closed the pool or having raised; an
\* error leaves close_all at once, a success goes on to the loop's next().
DisposeReturns(f, ok) ==
    /\ f.at = "dispose"
    /\ IF ok
       THEN /\ disposed' = disposed \cup {f.eng}
            /\ CloseAllNext(Without(f), f.op, f.pos, f.used)
       ELSE /\ Finish(Without(f), Ret(f.op, None, "raise", f.eng, FALSE,
                                      DisposeFailure, FALSE))
            /\ UNCHANGED <<disposed, _engines, _session_makers, clears>>
    /\ UNCHANGED <<settings, load, importing, checkedout, _manager, engineLog>>

\* --------------------------------------------- DatabaseManager.health_check
\* The outcomes of `async with engine.connect()` and `SELECT 1`.
RoundTrips == {"ok", "unreachable", "auth failed"}

\* await manager.health_check(connection_name), up to engine.connect(): an
\* error of get_engine is caught and answered with False.
HealthCheck(connection_name) ==
    /\ Exists
    /\ LET r == get_engine(_manager[1], connection_name) IN
        /\ Apply(r)
        /\ IF r.kind = "raise"
           THEN /\ UNCHANGED checkedout
                /\ Finish(inflight, Ret("health_check", connection_name, "value",
                                        0, FALSE, r.err, FALSE))
           ELSE /\ checkedout' = CheckedOut(checkedout, r.eng)
                /\ Suspend(inflight, Frame("connect", "health_check", r.eng,
                                           0, 0, 0))
    /\ UNCHANGED <<settings, load, importing, _manager, disposed, clears>>

\* The body of startup_database's loop from the idx-th configured connection
\* on, up to the health check's engine.connect() or to the return; printed
\* is the error the health check before it printed, "" when it printed none.
StartupNext(rest, held, self, idx, printed) ==
    IF idx > Len(self.config.connections)
    THEN /\ Finish(rest, Ret("startup_database", None, "value", 0, FALSE, printed, FALSE))
         /\ checkedout' = held
         /\ UNCHANGED <<_engines, _session_makers, engineLog>>
    ELSE LET name == self.config.connections[idx].name
             r == get_engine(self, name)
         IN  /\ Apply(r)
             /\ IF r.kind = "raise"
                THEN /\ checkedout' = held
                     /\ Finish(rest, Ret("startup_database", name, "raise", 0,
                                         FALSE, r.err, FALSE))
                ELSE /\ checkedout' = CheckedOut(held, r.eng)
                     /\ Suspend(rest, Frame("connect", "startup_database", r.eng,
                                            0, 0, idx))

\* await startup_database(config)
StartupDatabase(config) ==
    /\ _manager' = get_manager(config)
    /\ StartupNext(inflight, checkedout, get_manager(config)[1], 1, "")
    /\ UNCHANGED <<settings, load, importing, disposed, clears>>

\* health_check without its try/except: a failed round trip propagates.
RoundTripReturnsUncaught(f, rt) ==
    /\ f.at = "connect"
    /\ IF f.op = "health_check"
       THEN /\ Finish(Without(f), Ret("health_check", engineLog[f.eng].name,
                                      IF rt = "ok" THEN "value" ELSE "raise",
                                      f.eng, rt = "ok",
                                      IF rt = "ok" THEN "" ELSE rt, FALSE))
            /\ checkedout' = Released(checkedout, f.eng)
            /\ UNCHANGED <<_engines, _session_makers, engineLog>>
       ELSE /\ Finish(Without(f), Ret("startup_database", None,
                                      IF rt = "ok" THEN "value" ELSE "raise",
                                      0, FALSE, IF rt = "ok" THEN "" ELSE rt,
                                      FALSE))
            /\ checkedout' = Released(checkedout, f.eng)
            /\ UNCHANGED <<_engines, _session_makers, engineLog>>
    /\ UNCHANGED <<settings, load, importing, _manager, disposed, clears>>

\* startup_database stopping at the first health check that fails.
RoundTripReturns_halting(f, rt) ==
    /\ f.at = "connect"
    /\ IF f.op = "health_check"
       THEN /\ Finish(Without(f), Ret("health_check", engineLog[f.eng].name,
                                      "value", f.eng, rt = "ok",
                                      IF rt = "ok" THEN "" ELSE rt, FALSE))
            /\ checkedout' = Released(checkedout, f.eng)
            /\ UNCHANGED <<_engines, _session_makers, engineLog>>
       ELSE IF rt # "ok"
            THEN /\ Finish(Without(f), Ret("startup_database", None, "value",
                                           0, FALSE, rt, FALSE))
                 /\ checkedout' = Released(checkedout, f.eng)
                 /\ UNCHANGED <<_engines, _session_makers, engineLog>>
            ELSE StartupNext(Without(f), Released(checkedout, f.eng),
                             _manager[1], f.idx + 1, "")
    /\ UNCHANGED <<settings, load, importing, _manager, disposed, clears>>

\* The round trip of a health check comes back: health_check answers True
\* when it succeeded and False, with the error printed, when it raised.
\* startup_database prints the line and goes on with the next connection.
RoundTripReturns(f, rt) ==
    /\ f.at = "connect"
    /\ IF f.op = "health_check"
       THEN /\ Finish(Without(f), Ret("health_check", engineLog[f.eng].name,
                                      "value", f.eng, rt = "ok",
                                      IF rt = "ok" THEN "" ELSE rt, FALSE))
            /\ checkedout' = Released(checkedout, f.eng)
            /\ UNCHANGED <<_engines, _session_makers, engineLog>>
       ELSE LET conn_name == _manager[1].config.connections[f.idx].name
                su == is_superuser_connection(_manager[1], conn_name) IN
            IF su.kind = "raise"
            THEN /\ Finish(Without(f), Ret("startup_database", conn_name, "raise",
                                           0, FALSE, su.err, FALSE))
                 /\ checkedout' = Released(checkedout, f.eng)
                 /\ UNCHANGED <<_engines, _session_makers, engineLog>>
            ELSE StartupNext(Without(f), Released(checkedout, f.eng),
                             _manager[1], f.idx + 1,
                             IF rt = "ok" THEN "" ELSE rt)
    /\ UNCHANGED <<settings, load, importing, _manager, disposed, clears>>

\* ------------------------------------------------------------- database.py
NoSuperuser == "No superuser connection available"
NotSuperuser == "does not have superuser privileges"
ProtectedDatabase == "Cannot drop protected database"
\* Errors of the driver and the server, which the operations let through.
OperationalError == "connection failed"
DuplicateDatabase == "database already exists"
InvalidCatalogName == "database does not exist"
ObjectInUse == "database is being accessed by other users"

protected_databases == {"postgres", "template0", "template1"}
\* The rows of pg_database with datistemplate = true.
Templates == {"template0", "template1"}
\* The database names in the order ORDER BY datname puts them.
ByName == <<"app", "postgres", "template0", "template1">>
\* datname a sorts before datname b.
Before(a, b) ==
    \E i, j \in 1..Len(ByName) : ByName[i] = a /\ ByName[j] = b /\ i < j
\* The rows of pg_database as a scan without ORDER BY meets them: in the
\* order the databases were made, initdb's first.
Heap == <<"template1", "template0", "postgres", "app">>
\* SELECT datname FROM pg_database WHERE datistemplate = false, unordered.
NonTemplateRows(dbs) ==
    LET listed(d) == d \in dbs \ Templates IN SelectSeq(Heap, listed)
\* ... ORDER BY datname; [row[0] for row in result.fetchall()]
Listing(dbs) == SortSeq(NonTemplateRows(dbs), Before)

\* The arguments the operations are called with.
DatabaseArgs == {"app", "postgres"}
AdminArgs == {None, "admin"}

\* A database.py coroutine suspended inside an `async with engine.connect()`
\* block: the statement it awaits (at), the operation the caller started
\* (op), the connection_name it was called with (arg) and the one it runs on
\* (name), database_name (db), force, and the engine it connected through.
Call(at, op, arg, name, db, force, eng) ==
    [at |-> at, op |-> op, arg |-> arg, name |-> name, db |-> db,
     force |-> force, eng |-> eng]

\* What a finished operation left its caller with; at is the statement it
\* awaited last ("" when it never reached the server).
Result(op, arg, name, db, force, kind, value, err, at) ==
    [op |-> op, arg |-> arg, name |-> name, db |-> db, force |-> force,
     kind |-> kind, value |-> value, err |-> err, at |-> at]
NoResult == Result("", None, None, "", FALSE, "none", FALSE, "", "")

\* One operation as main has seen it: the call, pg_database when it was
\* made (before), the outcome, and pg_database when it came back (after).
\* While the operation is awaited its kind is "pending".
Seen(op, db, force, before, kind, value, err, at, after) ==
    [op |-> op, db |-> db, force |-> force, before |-> before, kind |-> kind,
     value |-> value, err |-> err, at |-> at, after |-> after]

\* No administrative operation has run: the server as initdb leaves it.
Idle ==
    /\ databases = protected_databases
    /\ connected = {}
    /\ calls = EmptyBag
    /\ result = NoResult
    /\ program = "tasks"
    /\ seen = << >>
    /\ checkedout = EmptyBag

\* DatabaseSettings.get_superuser_connection_name
get_superuser_connection_name(cfg) ==
    LET su == {i \in 1..Len(cfg.connections) : cfg.connections[i].is_superuser}
    IN  IF su = {} THEN None
        ELSE cfg.connections[CHOOSE i \in su : \A j \in su : i <= j].name

\* The resolution without the check of lines 49-53: a connection that is
\* configured is taken whatever its flag.
Resolve_unverified(self, connection_name) ==
    LET name == IF connection_name = None
                THEN get_superuser_connection_name(settings)
                ELSE connection_name
        su == is_superuser_connection(self, name)
    IN  IF name = None THEN [kind |-> "raise", err |-> NoSuperuser, name |-> None]
        ELSE IF su.kind = "raise" THEN [kind |-> "raise", err |-> su.err, name |-> name]
        ELSE [kind |-> "value", err |-> "", name |-> name]

\* The first lines of each operation: the connection name to run on, from
\* the global settings when none is given, verified against the manager.
Resolve(self, connection_name) ==
    LET name == IF connection_name = None
                THEN get_superuser_connection_name(settings)
                ELSE connection_name
        su == is_superuser_connection(self, name)
    IN  IF name = None THEN [kind |-> "raise", err |-> NoSuperuser, name |-> None]
        ELSE IF su.kind = "raise" THEN [kind |-> "raise", err |-> su.err, name |-> name]
        ELSE IF ~su.bool THEN [kind |-> "raise", err |-> NotSuperuser, name |-> name]
        ELSE [kind |-> "value", err |-> "", name |-> name]

\* main calls an operation only when the one before has come back.
InTurn == program = "main" => calls = EmptyBag /\ Len(seen) < MaxSeen

\* An operation returns or raises, to main at once when it was not awaited.
Return(rest, r) ==
    /\ calls' = rest
    /\ result' = r
    /\ program' = program
    /\ seen' = IF program # "main" THEN seen
               ELSE IF calls = EmptyBag
               THEN Append(seen, Seen(r.op, r.db, r.force, databases, r.kind,
                                      r.value, r.err, r.at, databases'))
               ELSE [seen EXCEPT ![Len(seen)] =
                        Seen(r.op, r.db, r.force, @.before, r.kind, r.value,
                             r.err, r.at, databases')]

\* An operation reaches engine.connect() and the statement behind it.
Await(rest, c) ==
    /\ BagCardinality(rest) < MaxCalls
    /\ calls' = rest (+) SetToBag({c})
    /\ result' = NoResult
    /\ program' = program
    /\ seen' = IF program = "main" /\ calls = EmptyBag
               THEN Append(seen, Seen(c.op, c.db, c.force, databases, "pending",
                                      FALSE, "", "", databases))
               ELSE seen

\* engine = manager.get_engine(connection_name); async with engine.connect():
\* a connection of the engine is checked out, `held` being the ones that
\* are checked out already.
Connect(rest, held, self, at, op, arg, name, db, force) ==
    LET r == get_engine(self, name) IN
        /\ Apply(r)
        /\ checkedout' = CheckedOut(held, r.eng)
        /\ Await(rest, Call(at, op, arg, name, db, force, r.eng))

\* An operation from its get_manager() to its first await: the resolution,
\* and the engine of the block that awaits `at`.
Begin(at, op, database_name, connection_name, force) ==
    /\ InTurn
    /\ UNCHANGED <<settings, load, importing, disposed, inflight, clears, last, sessionVars,
                   databases, connected>>
    /\ LET manager == get_manager(Nothing)[1]
           p == Resolve(manager, connection_name)
       IN  IF p.kind = "raise"
           THEN /\ Return(calls, Result(op, connection_name, p.name, database_name,
                                        force, "raise", FALSE, p.err, ""))
                /\ UNCHANGED <<_engines, _session_makers, engineLog, checkedout>>
           ELSE Connect(calls, checkedout, manager, at, op, connection_name, p.name,
                        database_name, force)

DatabaseExists(database_name, connection_name) ==
    /\ _manager' = get_manager(Nothing)
    /\ Begin("select", "database_exists", database_name, connection_name, FALSE)

\* create_database awaits database_exists(database_name, connection_name)
\* with the name it resolved, which verifies it once more.
CreateDatabase(database_name, connection_name) ==
    /\ _manager' = get_manager(Nothing)
    /\ Begin("select", "create_database", database_name, connection_name, FALSE)

\* drop_database without the denylist check of lines 164-170.
DropDatabase_unprotected(database_name, connection_name, force) ==
    /\ _manager' = get_manager(Nothing)
    /\ Begin("select", "drop_database", database_name, connection_name, force)

DropDatabase(database_name, connection_name, force) ==
    IF database_name \in protected_databases
    THEN /\ InTurn
         /\ UNCHANGED <<registryVars, sessionVars, databases, connected, checkedout>>
         /\ Return(calls, Result("drop_database", connection_name, None,
                                 database_name, force, "raise", FALSE,
                                 ProtectedDatabase, ""))
    ELSE /\ _manager' = get_manager(Nothing)
         /\ Begin("select", "drop_database", database_name, connection_name, force)

ListDatabases(connection_name) ==
    /\ _manager' = get_manager(Nothing)
    /\ Begin("list", "list_databases", "", connection_name, FALSE)

\* An operation whose connection goes back to the pool when it returns and
\* stays checked out when it raises.
Raise_holding(c, err) ==
    /\ UNCHANGED checkedout
    /\ Return(calls (-) SetToBag({c}),
              Result(c.op, c.arg, c.name, c.db, c.force, "raise", FALSE, err, c.at))

\* The operation of call c raises err or returns value, leaving its `async
\* with engine.connect()` block, which gives the connection back.
Raise(c, err) ==
    /\ checkedout' = Released(checkedout, c.eng)
    /\ Return(calls (-) SetToBag({c}),
              Result(c.op, c.arg, c.name, c.db, c.force, "raise", FALSE, err, c.at))
Value(c, value) ==
    /\ checkedout' = Released(checkedout, c.eng)
    /\ Return(calls (-) SetToBag({c}),
              Result(c.op, c.arg, c.name, c.db, c.force, "value", value, "", c.at))

\* create_database without the early return of lines 113-115: CREATE
\* DATABASE is sent whatever the existence check found.
SelectReturns_create_unchecked(c, ok) ==
    /\ c.at = "select"
    /\ UNCHANGED <<settings, load, importing, _manager, disposed, inflight, clears, last,
                   sessionVars, databases, connected>>
    /\ LET exists == c.db \in databases
           rest == calls (-) SetToBag({c})
       IN  IF ~ok
           THEN Raise(c, OperationalError) /\ UNCHANGED <<_engines, _session_makers, engineLog>>
           ELSE IF c.op = "database_exists"
           THEN Value(c, exists) /\ UNCHANGED <<_engines, _session_makers, engineLog>>
           ELSE IF c.op = "drop_database" /\ ~exists
           THEN Value(c, FALSE) /\ UNCHANGED <<_engines, _session_makers, engineLog>>
           ELSE Connect(rest, Released(checkedout, c.eng), _manager[1],
                        IF c.op = "create_database" THEN "create"
                        ELSE IF c.force THEN "terminate" ELSE "drop",
                        c.op, c.arg, c.name, c.db, c.force)

\* drop_database without the early return of lines 191-193: the statements
\* of the drop are sent whatever the existence check found.
SelectReturns_drop_unchecked(c, ok) ==
    /\ c.at = "select"
    /\ UNCHANGED <<settings, load, importing, _manager, disposed, inflight, clears, last,
                   sessionVars, databases, connected>>
    /\ LET exists == c.db \in databases
           rest == calls (-) SetToBag({c})
       IN  IF ~ok
           THEN Raise(c, OperationalError) /\ UNCHANGED <<_engines, _session_makers, engineLog>>
           ELSE IF c.op = "database_exists"
           THEN Value(c, exists) /\ UNCHANGED <<_engines, _session_makers, engineLog>>
           ELSE IF c.op = "create_database" /\ exists
           THEN Value(c, FALSE) /\ UNCHANGED <<_engines, _session_makers, engineLog>>
           ELSE Connect(rest, Released(checkedout, c.eng), _manager[1],
                        IF c.op = "create_database" THEN "create"
                        ELSE IF c.force THEN "terminate" ELSE "drop",
                        c.op, c.arg, c.name, c.db, c.force)

\* drop_database returning True after the existence check, with no DROP
\* DATABASE sent.
SelectReturns_drop_unsent(c, ok) ==
    /\ c.at = "select"
    /\ UNCHANGED <<settings, load, importing, _manager, disposed, inflight, clears, last,
                   sessionVars, databases, connected>>
    /\ LET exists == c.db \in databases
           rest == calls (-) SetToBag({c})
       IN  IF ~ok
           THEN Raise(c, OperationalError) /\ UNCHANGED <<_engines, _session_makers, engineLog>>
           ELSE IF c.op = "database_exists"
           THEN Value(c, exists) /\ UNCHANGED <<_engines, _session_makers, engineLog>>
           ELSE IF c.op = "create_database" /\ exists
           THEN Value(c, FALSE) /\ UNCHANGED <<_engines, _session_makers, engineLog>>
           ELSE IF c.op = "drop_database"
           THEN Value(c, exists) /\ UNCHANGED <<_engines, _session_makers, engineLog>>
           ELSE Connect(rest, Released(checkedout, c.eng), _manager[1], "create",
                        c.op, c.arg, c.name, c.db, c.force)

\* database_exists answering, once it has answered for a database, with
\* that answer again, as a memoised function would.
SelectReturns_memoised(c, ok) ==
    /\ c.at = "select"
    /\ c.op = "database_exists"
    /\ UNCHANGED <<registryVars, sessionVars, databases, connected>>
    /\ LET answered == {i \in 1..Len(seen) :
                            /\ seen[i].op = "database_exists"
                            /\ seen[i].db = c.db
                            /\ seen[i].kind = "value"}
       IN  IF ~ok
           THEN Raise(c, OperationalError)
           ELSE IF answered # {}
           THEN Value(c, seen[CHOOSE i \in answered : TRUE].value)
           ELSE Value(c, c.db \in databases)

\* SELECT 1 FROM pg_database WHERE datname = :dbname comes back.
SelectReturns(c, ok) ==
    /\ c.at = "select"
    /\ UNCHANGED <<settings, load, importing, _manager, disposed, inflight, clears, last,
                   sessionVars, databases, connected>>
    /\ LET exists == c.db \in databases
           rest == calls (-) SetToBag({c})
       IN  IF ~ok
           THEN Raise(c, OperationalError) /\ UNCHANGED <<_engines, _session_makers, engineLog>>
           ELSE IF c.op = "database_exists"
           THEN Value(c, exists) /\ UNCHANGED <<_engines, _session_makers, engineLog>>
           ELSE IF c.op = "create_database" /\ exists
           THEN Value(c, FALSE) /\ UNCHANGED <<_engines, _session_makers, engineLog>>
           ELSE IF c.op = "drop_database" /\ ~exists
           THEN Value(c, FALSE) /\ UNCHANGED <<_engines, _session_makers, engineLog>>
           ELSE Connect(rest, Released(checkedout, c.eng), _manager[1],
                        IF c.op = "create_database" THEN "create"
                        ELSE IF c.force THEN "terminate" ELSE "drop",
                        c.op, c.arg, c.name, c.db, c.force)

\* create_database answering True when the database is there after its
\* CREATE DATABASE, whoever made it.
CreateReturns_swallowing_duplicate(c, ok) ==
    /\ c.at = "create"
    /\ IF ~ok
       THEN UNCHANGED databases /\ Raise(c, OperationalError)
       ELSE databases' = databases \cup {c.db} /\ Value(c, TRUE)
    /\ UNCHANGED <<registryVars, sessionVars, connected>>

\* CREATE DATABASE comes back.
CreateReturns(c, ok) ==
    /\ c.at = "create"
    /\ IF ~ok
       THEN UNCHANGED databases /\ Raise(c, OperationalError)
       ELSE IF c.db \in databases
       THEN UNCHANGED databases /\ Raise(c, DuplicateDatabase)
       ELSE databases' = databases \cup {c.db} /\ Value(c, TRUE)
    /\ UNCHANGED <<registryVars, sessionVars, connected>>

\* SELECT pg_terminate_backend(...) comes back; DROP DATABASE is next.
TerminateReturns(c, ok) ==
    /\ c.at = "terminate"
    /\ UNCHANGED <<registryVars, sessionVars, databases>>
    /\ IF ~ok
       THEN UNCHANGED connected /\ Raise(c, OperationalError)
       ELSE /\ connected' = connected \ {c.db}
            /\ calls' = (calls (-) SetToBag({c})) (+) SetToBag({[c EXCEPT !.at = "drop"]})
            /\ result' = NoResult
            /\ UNCHANGED <<program, seen, checkedout>>

\* DROP DATABASE that, with force, also ends the sessions it finds on the
\* database, as DROP DATABASE ... WITH (FORCE) does.
DropReturns_with_force(c, ok) ==
    /\ c.at = "drop"
    /\ IF ~ok
       THEN UNCHANGED databases /\ Raise(c, OperationalError)
       ELSE IF c.db \notin databases
       THEN UNCHANGED databases /\ Raise(c, InvalidCatalogName)
       ELSE IF c.db \in connected /\ ~c.force
       THEN UNCHANGED databases /\ Raise(c, ObjectInUse)
       ELSE databases' = databases \ {c.db} /\ Value(c, TRUE)
    /\ UNCHANGED <<registryVars, sessionVars, connected>>

\* DROP DATABASE comes back.
DropReturns(c, ok) ==
    /\ c.at = "drop"
    /\ IF ~ok
       THEN UNCHANGED databases /\ Raise(c, OperationalError)
       ELSE IF c.db \notin databases
       THEN UNCHANGED databases /\ Raise(c, InvalidCatalogName)
       ELSE IF c.db \in connected
       THEN UNCHANGED databases /\ Raise(c, ObjectInUse)
       ELSE databases' = databases \ {c.db} /\ Value(c, TRUE)
    /\ UNCHANGED <<registryVars, sessionVars, connected>>

\* list_databases with a query that has no ORDER BY.
ListReturns_unordered(c, ok) ==
    /\ c.at = "list"
    /\ UNCHANGED <<registryVars, sessionVars, databases, connected>>
    /\ IF ~ok
       THEN Raise(c, OperationalError)
       ELSE Value(c, NonTemplateRows(databases))

\* SELECT datname FROM pg_database WHERE datistemplate = false ORDER BY
\* datname comes back.
ListReturns(c, ok) ==
    /\ c.at = "list"
    /\ UNCHANGED <<registryVars, sessionVars, databases, connected>>
    /\ IF ~ok
       THEN Raise(c, OperationalError)
       ELSE Value(c, Listing(databases))

\* Another client of the server opens or ends a session on a database.
ClientConnects(db) ==
    /\ db \in databases \ (Templates \cup connected)
    /\ db \in DatabaseArgs \ protected_databases
    /\ connected' = connected \cup {db}
    /\ result' = NoResult
    /\ UNCHANGED <<registryVars, sessionVars, databases, calls, program, seen,
                   checkedout>>

ClientDisconnects(db) ==
    /\ db \in connected
    /\ connected' = connected \ {db}
    /\ result' = NoResult
    /\ UNCHANGED <<registryVars, sessionVars, databases, calls, program, seen,
                   checkedout>>

\* Another client of the server creates a database, or drops one that no
\* session is on.
ClientCreates(db) ==
    /\ db \in DatabaseArgs \ protected_databases
    /\ db \notin databases
    /\ databases' = databases \cup {db}
    /\ result' = NoResult
    /\ UNCHANGED <<registryVars, sessionVars, connected, calls, program, seen,
                   checkedout>>

ClientDrops(db) ==
    /\ db \in DatabaseArgs \ protected_databases
    /\ db \in databases \ connected
    /\ databases' = databases \ {db}
    /\ result' = NoResult
    /\ UNCHANGED <<registryVars, sessionVars, connected, calls, program, seen,
                   checkedout>>

\* ------------------------------------------- dependencies.get_db_session
\* How an awaited call or the caller's unit of work ends: it returns, it
\* raises an Exception, or it raises a BaseException that is no Exception
\* (asyncio.CancelledError, GeneratorExit).
Endings == {"ok", "error", "cancelled"}

\* A request's generator: the await it is in (at), the id of its session,
\* how the caller's unit of work ended (body), the calls made on the session
\* with their endings (ops), the exception in flight (pending) and, once the
\* generator is exhausted, the error it left with (raised; "" for none).
Request(at, session, body, ops, pending, raised) ==
    [at |-> at, session |-> session, body |-> body, ops |-> ops,
     pending |-> pending, raised |-> raised]
NoRequest == Request("new", 0, "", << >>, "", "")

\* The error an ending of `what` puts in flight.
Error(what, ending) == what \o " " \o ending

\* get_db_session with the close at the end of the try and except blocks
\* and no finally: a rollback that fails leaves before it.
get_db_session_without_finally(at, ending, pending) ==
    CASE at = "yield" /\ ending = "ok" ->
            [at |-> "commit", pending |-> ""]
      [] at = "yield" /\ ending = "error" ->
            [at |-> "rollback", pending |-> Error("body", ending)]
      [] at = "yield" /\ ending = "cancelled" ->
            [at |-> "done", pending |-> Error("body", ending)]
      [] at = "commit" /\ ending = "ok" ->
            [at |-> "close", pending |-> ""]
      [] at = "commit" /\ ending = "error" ->
            [at |-> "rollback", pending |-> Error("commit", ending)]
      [] at = "commit" /\ ending = "cancelled" ->
            [at |-> "done", pending |-> Error("commit", ending)]
      [] at = "rollback" /\ ending = "ok" ->
            [at |-> "close", pending |-> pending]
      [] at = "rollback" /\ ending # "ok" ->
            [at |-> "done", pending |-> Error("rollback", ending)]
      [] at = "close" /\ ending = "ok" ->
            [at |-> "done", pending |-> pending]
      [] at = "close" /\ ending # "ok" ->
            [at |-> "done", pending |-> Error("close", ending)]

\* The control flow of lines 84-91: where the generator goes when `at` ends
\* with `ending` while `pending` is in flight.  try: yield; commit.  except
\* Exception: rollback; raise.  finally: close.
get_db_session(at, ending, pending) ==
    CASE at = "yield" /\ ending = "ok" ->
            [at |-> "commit", pending |-> ""]
      [] at = "yield" /\ ending = "error" ->
            [at |-> "rollback", pending |-> Error("body", ending)]
      [] at = "yield" /\ ending = "cancelled" ->
            [at |-> "close", pending |-> Error("body", ending)]
      [] at = "commit" /\ ending = "ok" ->
            [at |-> "close", pending |-> ""]
      [] at = "commit" /\ ending = "error" ->
            [at |-> "rollback", pending |-> Error("commit", ending)]
      [] at = "commit" /\ ending = "cancelled" ->
            [at |-> "close", pending |-> Error("commit", ending)]
      [] at = "rollback" /\ ending = "ok" ->
            [at |-> "close", pending |-> pending]
      [] at = "rollback" /\ ending # "ok" ->
            [at |-> "close", pending |-> Error("rollback", ending)]
      [] at = "close" /\ ending = "ok" ->
            [at |-> "done", pending |-> pending]
      [] at = "close" /\ ending # "ok" ->
            [at |-> "done", pending |-> Error("close", ending)]

\* get_session handing out one session per engine, as a scoped or cached
\* session would be: a request gets the session made earlier for the engine
\* when there is one.
BeginRequest_shared_session(r, connection_name) ==
    /\ req[r].at = "new"
    /\ _manager' = get_manager(Some(settings))
    /\ LET manager == get_manager(Some(settings))[1]
           m == get_session_maker(manager, connection_name)
           made == {i \in 1..Len(sessionLog) : sessionLog[i].engine = m.eng}
       IN
        /\ Apply(m)
        /\ IF m.kind = "raise"
           THEN /\ req' = [req EXCEPT ![r] = Request("done", 0, "", << >>, "", m.err)]
                /\ UNCHANGED sessionLog
           ELSE IF made # {}
           THEN /\ req' = [req EXCEPT ![r] =
                               Request("yield", CHOOSE i \in made : TRUE, "",
                                       << >>, "", "")]
                /\ UNCHANGED sessionLog
           ELSE /\ sessionLog' = Append(sessionLog, [engine |-> m.eng])
                /\ req' = [req EXCEPT ![r] =
                               Request("yield", Len(sessionLog) + 1, "", << >>, "", "")]
    /\ UNCHANGED <<settings, load, importing, checkedout, disposed, inflight, clears, last, adminVars>>

\* manager = Depends(get_db_manager), that is get_manager(settings), and
\* session = await manager.get_session(connection_name), up to the yield.
\* An error of get_session leaves the generator before any session exists.
BeginRequest(r, connection_name) ==
    /\ req[r].at = "new"
    /\ _manager' = get_manager(Some(settings))
    /\ LET manager == get_manager(Some(settings))[1]
           m == get_session_maker(manager, connection_name)
       IN
        /\ Apply(m)
        /\ IF m.kind = "raise"
           THEN /\ req' = [req EXCEPT ![r] = Request("done", 0, "", << >>, "", m.err)]
                /\ UNCHANGED sessionLog
           ELSE /\ sessionLog' = Append(sessionLog, [engine |-> m.eng])
                /\ req' = [req EXCEPT ![r] =
                               Request("yield", Len(sessionLog) + 1, "", << >>, "", "")]
    /\ UNCHANGED <<settings, load, importing, checkedout, disposed, inflight, clears, last, adminVars>>

\* The step the generator takes when the await it is in ends.
Resume(r, ending) ==
    LET q == req[r]
        n == get_db_session(q.at, ending, q.pending)
    IN  req' = [req EXCEPT ![r] =
                   Request(n.at, q.session,
                           IF q.at = "yield" THEN ending ELSE q.body,
                           IF q.at = "yield" THEN q.ops
                           ELSE Append(q.ops, <<q.at, ending>>),
                           IF n.at = "done" THEN "" ELSE n.pending,
                           IF n.at = "done" THEN n.pending ELSE "")]

\* The caller's unit of work ends: the framework resumes the generator or
\* throws the failure into it at the yield.
UnitOfWorkEnds(r, ending) ==
    /\ req[r].at = "yield"
    /\ Resume(r, ending)
    /\ UNCHANGED <<registryVars, sessionLog, adminVars, checkedout>>

\* await session.commit() ends.
CommitReturns(r, ending) ==
    /\ req[r].at = "commit"
    /\ Resume(r, ending)
    /\ UNCHANGED <<registryVars, sessionLog, adminVars, checkedout>>

\* await session.rollback() ends.
RollbackReturns(r, ending) ==
    /\ req[r].at = "rollback"
    /\ Resume(r, ending)
    /\ UNCHANGED <<registryVars, sessionLog, adminVars, checkedout>>

\* await session.close() ends.
CloseReturns(r, ending) ==
    /\ req[r].at = "close"
    /\ Resume(r, ending)
    /\ UNCHANGED <<registryVars, sessionLog, adminVars, checkedout>>

\* The application before its first request.
InitSession ==
    /\ settings \in RegistryConfigs
    /\ _manager = Nothing
    /\ _engines = << >>
    /\ _session_makers = << >>
    /\ engineLog = << >>
    /\ disposed = {}
    /\ inflight = EmptyBag
    /\ clears = 0
    /\ last = NoRet
    /\ load = NoLoad
    /\ importing = Imported
    /\ sessionLog = << >>
    /\ req = [r \in Requests |-> NoRequest]
    /\ Idle

NextSession ==
    \E r \in Requests :
        \/ \E name \in {"default", "ghost"} : BeginRequest(r, name)
        \/ \E ending \in Endings : UnitOfWorkEnds(r, ending)
        \/ \E ending \in Endings : CommitReturns(r, ending)
        \/ \E ending \in Endings : RollbackReturns(r, ending)
        \/ \E ending \in Endings : CloseReturns(r, ending)

SpecSession == InitSession /\ [][NextSession]_vars

\* ------------------------------------- administrative operations, as run
\* The settings the administrative operations are run under.
AdminConfigs ==
    {Settings(<<Conn("default", FALSE), Conn("admin", TRUE), Conn("root", TRUE)>>,
              "default"),
     Settings(<<Conn("admin", FALSE)>>, "default")}

\* The server the operations find: as initdb left it, or with the
\* application's database made earlier.
Servers == {protected_databases, protected_databases \cup {"app"}}

InitAdmin ==
    /\ settings \in AdminConfigs
    /\ _manager = Nothing
    /\ _engines = << >>
    /\ _session_makers = << >>
    /\ engineLog = << >>
    /\ disposed = {}
    /\ inflight = EmptyBag
    /\ clears = 0
    /\ last = NoRet
    /\ load = NoLoad
    /\ importing = Imported
    /\ sessionLog = << >>
    /\ req = [r \in Requests |-> NoRequest]
    /\ databases \in Servers
    /\ connected = {}
    /\ calls = EmptyBag
    /\ result = NoResult
    /\ program = "tasks"
    /\ seen = << >>
    /\ checkedout = EmptyBag

NextAdmin ==
    \/ \E config \in ConfigArgs : GetManager(config)
    \/ \E db \in DatabaseArgs, name \in AdminArgs : DatabaseExists(db, name)
    \/ \E db \in DatabaseArgs, name \in AdminArgs : CreateDatabase(db, name)
    \/ \E db \in DatabaseArgs, name \in AdminArgs, force \in BOOLEAN :
          DropDatabase(db, name, force)
    \/ \E name \in AdminArgs : ListDatabases(name)
    \/ \E c \in BagToSet(calls), ok \in BOOLEAN : SelectReturns(c, ok)
    \/ \E c \in BagToSet(calls), ok \in BOOLEAN : CreateReturns(c, ok)
    \/ \E c \in BagToSet(calls), ok \in BOOLEAN : TerminateReturns(c, ok)
    \/ \E c \in BagToSet(calls), ok \in BOOLEAN : DropReturns(c, ok)
    \/ \E c \in BagToSet(calls), ok \in BOOLEAN : ListReturns(c, ok)
    \/ \E db \in DatabaseArgs : ClientConnects(db)
    \/ \E db \in DatabaseArgs : ClientDisconnects(db)

SpecAdmin == InitAdmin /\ [][NextAdmin]_vars

\* The operations of database.py on a server that other clients change too.
NextShared ==
    \/ \E config \in ConfigArgs : GetManager(config)
    \/ \E db \in DatabaseArgs, name \in AdminArgs : DatabaseExists(db, name)
    \/ \E db \in DatabaseArgs, name \in AdminArgs : CreateDatabase(db, name)
    \/ \E db \in DatabaseArgs, name \in AdminArgs, force \in BOOLEAN :
          DropDatabase(db, name, force)
    \/ \E name \in AdminArgs : ListDatabases(name)
    \/ \E c \in BagToSet(calls), ok \in BOOLEAN : SelectReturns(c, ok)
    \/ \E c \in BagToSet(calls), ok \in BOOLEAN : CreateReturns(c, ok)
    \/ \E c \in BagToSet(calls), ok \in BOOLEAN : TerminateReturns(c, ok)
    \/ \E c \in BagToSet(calls), ok \in BOOLEAN : DropReturns(c, ok)
    \/ \E c \in BagToSet(calls), ok \in BOOLEAN : ListReturns(c, ok)
    \/ \E db \in DatabaseArgs : ClientConnects(db)
    \/ \E db \in DatabaseArgs : ClientDisconnects(db)
    \/ \E db \in DatabaseArgs : ClientCreates(db)
    \/ \E db \in DatabaseArgs : ClientDrops(db)

SpecShared == InitAdmin /\ [][NextShared]_vars

\* The operations that open a connection with `async with engine.connect()`:
\* the four of database.py and health_check.
NextPool ==
    \/ \E db \in DatabaseArgs, name \in AdminArgs : DatabaseExists(db, name)
    \/ \E db \in DatabaseArgs, name \in AdminArgs : CreateDatabase(db, name)
    \/ \E db \in DatabaseArgs, name \in AdminArgs, force \in BOOLEAN :
          DropDatabase(db, name, force)
    \/ \E name \in AdminArgs : ListDatabases(name)
    \/ \E c \in BagToSet(calls), ok \in BOOLEAN : SelectReturns(c, ok)
    \/ \E c \in BagToSet(calls), ok \in BOOLEAN : CreateReturns(c, ok)
    \/ \E c \in BagToSet(calls), ok \in BOOLEAN : TerminateReturns(c, ok)
    \/ \E c \in BagToSet(calls), ok \in BOOLEAN : DropReturns(c, ok)
    \/ \E c \in BagToSet(calls), ok \in BOOLEAN : ListReturns(c, ok)
    \/ \E name \in AdminArgs : HealthCheck(name)
    \/ \E f \in BagToSet(inflight), rt \in RoundTrips : RoundTripReturns(f, rt)

\* The operations are run against a server that has the application's
\* database, under settings with a default connection and two superusers.
InitPool ==
    /\ InitAdmin
    /\ settings = Settings(<<Conn("default", FALSE), Conn("admin", TRUE),
                             Conn("root", TRUE)>>, "default")
    /\ databases = protected_databases \cup {"app"}

SpecPool == InitPool /\ [][NextPool]_vars

\* The operations called by one coroutine that awaits each before the next,
\* as main() of tests/test_completo.py does.
InitMain ==
    /\ settings \in AdminConfigs
    /\ _manager = Nothing
    /\ _engines = << >>
    /\ _session_makers = << >>
    /\ engineLog = << >>
    /\ disposed = {}
    /\ inflight = EmptyBag
    /\ clears = 0
    /\ last = NoRet
    /\ load = NoLoad
    /\ importing = Imported
    /\ sessionLog = << >>
    /\ req = [r \in Requests |-> NoRequest]
    /\ databases \in Servers
    /\ connected = {}
    /\ calls = EmptyBag
    /\ result = NoResult
    /\ program = "main"
    /\ seen = << >>
    /\ checkedout = EmptyBag

SpecMain == InitMain /\ [][NextAdmin]_vars

\* One coroutine that asks database_exists again and again while other
\* clients of the server create and drop databases.
NextPolling ==
    \/ \E db \in DatabaseArgs, name \in AdminArgs : DatabaseExists(db, name)
    \/ \E c \in BagToSet(calls), ok \in BOOLEAN : SelectReturns(c, ok)
    \/ \E db \in DatabaseArgs : ClientCreates(db)
    \/ \E db \in DatabaseArgs : ClientDrops(db)

SpecPolling == InitMain /\ [][NextPolling]_vars

\* ------------------------------------------------------------ specification
Init ==
    /\ settings \in RegistryConfigs
    /\ _manager = Nothing
    /\ _engines = << >>
    /\ _session_makers = << >>
    /\ engineLog = << >>
    /\ disposed = {}
    /\ inflight = EmptyBag
    /\ clears = 0
    /\ last = NoRet
    /\ load = NoLoad
    /\ importing = Imported
    /\ sessionLog = << >>
    /\ req = [r \in Requests |-> NoRequest]
    /\ Idle

Next ==
    \/ \E config \in ConfigArgs : GetManager(config)
    \/ \E name \in ArgNames : GetEngine(name)
    \/ \E name \in ArgNames : GetSessionMaker(name)
    \/ \E name \in ArgNames : GetSession(name)
    \/ \E name \in ArgNames : HealthCheck(name)
    \/ \E f \in BagToSet(inflight), rt \in RoundTrips : RoundTripReturns(f, rt)
    \/ CloseAll
    \/ \E f \in BagToSet(inflight), ok \in BOOLEAN : DisposeReturns(f, ok)
    \/ \E config \in ConfigArgs : StartupDatabase(config)
    \/ ShutdownDatabase

Spec == Init /\ [][Next]_vars

\* The registry with the two queries of the configuration, among the calls
\* that build engines and the ones that dispose of them.
NextQuery ==
    \/ \E config \in ConfigArgs : GetManager(config)
    \/ \E name \in ArgNames : GetEngine(name)
    \/ \E name \in ArgNames : GetSessionMaker(name)
    \/ CloseAll
    \/ \E f \in BagToSet(inflight), ok \in BOOLEAN : DisposeReturns(f, ok)
    \/ \E name \in ArgNames : IsSuperuserConnection(name)
    \/ ListConnections

SpecQuery == Init /\ [][NextQuery]_vars

\* The calls that reach get_manager, and the engines they make and dispose.
NextSingleton ==
    \/ \E config \in ConfigArgs : GetManager(config)
    \/ GetDbManager
    \/ \E config \in ConfigArgs : StartupDatabase(config)
    \/ \E f \in BagToSet(inflight), rt \in RoundTrips : RoundTripReturns(f, rt)
    \/ ShutdownDatabase
    \/ \E f \in BagToSet(inflight), ok \in BOOLEAN : DisposeReturns(f, ok)

SpecSingleton == Init /\ [][NextSingleton]_vars

\* The synchronous calls of the registry, and close_all emptying the caches
\* between them.
NextLookup ==
    \/ \E config \in ConfigArgs : GetManager(config)
    \/ \E name \in ArgNames : GetEngine(name)
    \/ \E name \in ArgNames : GetSessionMaker(name)
    \/ \E name \in ArgNames : GetSession(name)
    \/ CloseAll
    \/ \E f \in BagToSet(inflight), ok \in BOOLEAN : DisposeReturns(f, ok)

SpecLookup == Init /\ [][NextLookup]_vars

\* Settings with the global echo off or on, and for each connection echo
\* left out, given as false or given as true.
EchoConfigs ==
    {[Settings(<<ConnEcho("default", FALSE, d), ConnEcho("admin", TRUE, a)>>,
               "default") EXCEPT !.echo = g] :
         g \in BOOLEAN,
         d \in {<< >>, <<FALSE>>, <<TRUE>>},
         a \in {<< >>, <<FALSE>>, <<TRUE>>}}

InitEcho ==
    /\ settings \in EchoConfigs
    /\ _manager = Nothing
    /\ _engines = << >>
    /\ _session_makers = << >>
    /\ engineLog = << >>
    /\ disposed = {}
    /\ inflight = EmptyBag
    /\ clears = 0
    /\ last = NoRet
    /\ load = NoLoad
    /\ importing = Imported
    /\ sessionLog = << >>
    /\ req = [r \in Requests |-> NoRequest]
    /\ Idle

SpecEcho == InitEcho /\ [][NextLookup]_vars

\* -------------------------------------------------- loading a connection
\* The values a field is given in the input.
Ports == {-1, 0, 1, port_default, 65535, 65536}
PoolSizes == {-1, 0, 1, pool_size_default}
MaxOverflows == {-1, 0, 1, max_overflow_default}
\* A field given one of the values, or left out.
Given(values) == {Nothing} \cup {Some(v) : v \in values}

\* The connection's entry is read from the environment and validated.
LoadConnection ==
    /\ load.at = "env"
    /\ load' = DatabaseConnectionSettings(load.env)
    /\ UNCHANGED <<settings, importing, _manager, _engines, _session_makers,
                   engineLog, disposed, inflight, clears, last, sessionVars,
                   adminVars, checkedout>>

\* create_async_engine(url, pool_size=conn_settings.pool_size,
\* max_overflow=conn_settings.max_overflow, ...) for the connection loaded.
CreateAsyncEngine ==
    /\ load.at = "loaded"
    /\ load' = [load EXCEPT !.at = "engine"]
    /\ UNCHANGED <<settings, importing, _manager, _engines, _session_makers,
                   engineLog, disposed, inflight, clears, last, sessionVars,
                   adminVars, checkedout>>

InitLoad ==
    /\ settings \in RegistryConfigs
    /\ load \in {Load("env", Env(port, pool_size, max_overflow), Nothing, {}) :
                     port \in Given(Ports), pool_size \in Given(PoolSizes),
                     max_overflow \in Given(MaxOverflows)}
    /\ importing = Imported
    /\ _manager = Nothing
    /\ _engines = << >>
    /\ _session_makers = << >>
    /\ engineLog = << >>
    /\ disposed = {}
    /\ inflight = EmptyBag
    /\ clears = 0
    /\ last = NoRet
    /\ sessionLog = << >>
    /\ req = [r \in Requests |-> NoRequest]
    /\ Idle

NextLoad ==
    \/ LoadConnection
    \/ CreateAsyncEngine

SpecLoad == InitLoad /\ [][NextLoad]_vars

\* --------------------------------------------- settings.py, lines 177-198
\* try: settings = DatabaseSettings(), and the warning when it holds no
\* connection; an exception enters the handler, which prints the error.
TryLoad ==
    /\ importing.at = "import"
    /\ LET r == DatabaseSettings(importing.environ) IN
       IF r.kind = "raise"
       THEN /\ importing' = [importing EXCEPT !.at = "except",
                                              !.printed = {"error"}]
            /\ UNCHANGED settings
       ELSE /\ settings' = r.value
            /\ importing' = [importing EXCEPT
                   !.at = "ready",
                   !.printed = IF r.value.connections = << >>
                               THEN {"warning"} ELSE {}]
    /\ UNCHANGED <<load, _manager, _engines, _session_makers, engineLog,
                   disposed, inflight, clears, last, sessionVars, adminVars,
                   checkedout>>

\* except Exception: settings = DatabaseSettings() once more, reading the
\* same environment; when it raises again the exception leaves the module
\* and the import fails, otherwise the fallback line is printed.
Fallback ==
    /\ importing.at = "except"
    /\ LET r == DatabaseSettings(importing.environ) IN
       IF r.kind = "raise"
       THEN /\ importing' = [importing EXCEPT !.at = "failed"]
            /\ UNCHANGED settings
       ELSE /\ settings' = r.value
            /\ importing' = [importing EXCEPT
                   !.at = "ready", !.printed = @ \cup {"fallback"}]
    /\ UNCHANGED <<load, _manager, _engines, _session_makers, engineLog,
                   disposed, inflight, clears, last, sessionVars, adminVars,
                   checkedout>>

\* The connections an environment can declare.
DeclaredAs(name) ==
    {Declared(name, host, is_superuser, Env(port, pool_size, Nothing)) :
         host \in Given({"localhost"}), is_superuser \in {name = "admin"},
         port \in {Nothing, Some(0), Some(port_default)},
         pool_size \in {Nothing, Some(0)}}
Environs ==
    {<< >>}
    \cup {<<d>> : d \in DeclaredAs("default")}
    \cup {<<d, a>> : d \in DeclaredAs("default"), a \in DeclaredAs("admin")}

InitImport ==
    /\ settings = Unbound
    /\ importing \in {Importing("import", environ, {}) : environ \in Environs}
    /\ load = NoLoad
    /\ _manager = Nothing
    /\ _engines = << >>
    /\ _session_makers = << >>
    /\ engineLog = << >>
    /\ disposed = {}
    /\ inflight = EmptyBag
    /\ clears = 0
    /\ last = NoRet
    /\ sessionLog = << >>
    /\ req = [r \in Requests |-> NoRequest]
    /\ Idle

NextImport ==
    \/ TryLoad
    \/ Fallback

SpecImport == InitImport /\ [][NextImport]_vars

\* The application while it starts: startup_database among the calls that
\* build engines and check them, before shutdown_database is called.
NextStartup ==
    \/ \E config \in ConfigArgs : GetManager(config)
    \/ \E name \in ArgNames : GetEngine(name)
    \/ \E name \in ArgNames : HealthCheck(name)
    \/ \E f \in BagToSet(inflight), rt \in RoundTrips : RoundTripReturns(f, rt)
    \/ \E config \in ConfigArgs : StartupDatabase(config)

\* engine.connect() and SELECT 1 come back or raise, and the event loop
\* resumes the coroutine that awaits them, in whichever frame
\* startup_database is suspended.
SpecStartup ==
    /\ Init
    /\ [][NextStartup]_vars
    /\ \A f \in {Frame("connect", "startup_database", eng, 0, 0, idx) :
                    eng \in 1..MaxEngines,
                    idx \in UNION {1..Len(cfg.connections) :
                                       cfg \in RegistryConfigs \cup CustomConfigs}} :
           WF_vars(\E rt \in RoundTrips :
                       BagIn(f, inflight) /\ RoundTripReturns(f, rt))

\* ------------------------------------------------------- registry: claims
\* The configuration held by the manager.
Config == _manager[1].config
\* The calls that run close_all.
CloseOps == {"close_all", "shutdown_database"}
\* The names an engine can be built for.
Configurable == {"default", "admin"}

\* C1: get_engine(name) called twice in succession returns the identical
\* cached handle, and the second call builds no engine: a get_engine call
\* that follows at once a get_engine call for the same connection returns
\* the same engine from the cache and leaves the log of built engines as it
\* was.
C1_GetEngineTwiceSameHandle ==
    [][ ( /\ last.op = "get_engine" /\ last.kind = "value"
          /\ last'.op = "get_engine"
          /\ OrDefault(Config, last'.arg) = OrDefault(Config, last.arg) )
        => ( /\ last'.kind = "value"
             /\ last'.eng = last.eng
             /\ engineLog' = engineLog
             /\ Constructed(OrDefault(Config, last.arg))' =
                    Constructed(OrDefault(Config, last.arg)) ) ]_vars

\* C1 witness: a get_engine call answered from the cache, for a connection
\* whose engine was built once.
C1_Witness ==
    /\ last.op = "get_engine" /\ last.kind = "value" /\ last.cached
    /\ Constructed(OrDefault(Config, last.arg)) = 1

\* C2: as long as close_all has not emptied the cache, concurrent first
\* get_session("default") calls build exactly one engine for "default", and
\* the session of every caller is bound to that one engine.
C2_OneEngineForConcurrentFirstAccess ==
    clears = 0 =>
        /\ Constructed("default") <= 1
        /\ ( last.op = "get_session" /\ last.arg = "default" /\ last.kind = "value" )
           => /\ Constructed("default") = 1
              /\ engineLog[last.eng].name = "default"
              /\ Has(_engines, "default") /\ Get(_engines, "default") = last.eng

\* C2 witness: a later caller's get_session("default") finds the engine the
\* first caller built, while another coroutine is suspended.
C2_Witness ==
    /\ clears = 0
    /\ last.op = "get_session" /\ last.arg = "default" /\ last.kind = "value"
    /\ last.cached
    /\ inflight # EmptyBag

\* C3 as stated: over the lifetime of the registry at most one engine is
\* ever built for each connection name.
C3_OneEnginePerNameForever ==
    \A n \in Configurable : Constructed(n) <= 1

\* C3 amended: a name's engine is built again only after close_all has
\* emptied the cache: the engines built for a name number at most one more
\* than the times a non-empty cache was cleared.
C3_OneEnginePerNameBetweenClears ==
    \A n \in Configurable : Constructed(n) <= clears + 1

\* C3 witness: a second engine for "default", built after the cache was
\* cleared.
C3_Witness ==
    Constructed("default") = 2 /\ clears = 1

C7_CloseAllDisposesAndClears ==
    [][ ( last'.op \in CloseOps /\ last'.kind = "value" )
        => ( /\ _engines' = << >> /\ _session_makers' = << >>
             /\ Values(_engines) \subseteq disposed' ) ]_vars

\* C8 as stated: when the disposal of one engine fails during close_all,
\* the loop goes on and the caches are cleared all the same.
C8_CloseAllContinuesPastFailure ==
    ( last.op \in CloseOps /\ last.err = DisposeFailure )
    => ( _engines = << >> /\ _session_makers = << >> )

\* C9: health_check never raises; it answers True only when the round trip
\* on the resolved engine succeeded, and False on every failure, that of an
\* unconfigured name included.
C9_HealthCheckNeverRaises ==
    last.op = "health_check" =>
        /\ last.kind = "value"
        /\ last.bool => ( last.err = "" /\ last.eng \in 1..Len(engineLog) )
        /\ last.err # "" => ~last.bool

\* C9 witness: a health check whose round trip found the host unreachable
\* has answered False.
C9_Witness ==
    /\ last.op = "health_check" /\ last.kind = "value"
    /\ ~last.bool /\ last.err = "unreachable"


\* ------------------------------------------------- claims on get_db_session
\* The methods called on a request's session so far, in order, the one still
\* being awaited included.
Calls(q) ==
    [i \in 1..Len(q.ops) |-> q.ops[i][1]]
        \o (IF q.at \in {"commit", "rollback", "close"} THEN <<q.at>> ELSE << >>)
Times(c, op) == Cardinality({i \in 1..Len(c) : c[i] = op})
Called(c, op) == Times(c, op) > 0
\* The generator of request r has been left and had yielded a session.
Left(r) == req[r].at = "done" /\ req[r].session # 0

\* C5: every session get_db_session has yielded is closed exactly once on
\* every way out of the generator (the unit of work returns or fails, the
\* commit fails, the rollback fails), and nothing is called on the session
\* after its close.
C5_SessionClosedOnceAndLast ==
    \A r \in Requests :
        LET c == Calls(req[r]) IN
            /\ Times(c, "close") <= 1
            /\ Called(c, "close") => c[Len(c)] = "close"
            /\ Left(r) => Times(c, "close") = 1

\* A request whose commit failed and whose rollback failed too has left the
\* generator with its session closed.
C5_Witness ==
    \E r \in Requests :
        /\ Left(r)
        /\ req[r].ops = <<<<"commit", "error">>, <<"rollback", "error">>,
                          <<"close", "ok">>>>

\* C6: when the caller's unit of work returns, the session is committed and
\* never rolled back; when it raises, the session is rolled back before it
\* is closed, commit is never called, and the generator leaves with the
\* failure the unit of work raised.
C6_CommitOnSuccessRollbackOnFailure ==
    \A r \in Requests :
        LET q == req[r]
            c == Calls(q)
        IN  Left(r) =>
                /\ q.body = "ok" => Called(c, "commit") /\ ~Called(c, "rollback")
                /\ q.body # "ok" =>
                       /\ c = <<"rollback", "close">>
                       /\ q.raised = Error("body", q.body)

\* ------------------------------------------------------ claims on database.py
\* Connection n is the first of cfg, in iteration order, flagged superuser.
FirstSuperuser(cfg, n) ==
    \E i \in 1..Len(cfg.connections) :
        /\ cfg.connections[i].name = n
        /\ cfg.connections[i].is_superuser
        /\ \A j \in 1..(i - 1) : ~cfg.connections[j].is_superuser
HasSuperuser(cfg) ==
    \E i \in 1..Len(cfg.connections) : cfg.connections[i].is_superuser

\* One of the four operations is called without a connection name.
CalledWithoutName ==
    \/ \E db \in DatabaseArgs : DatabaseExists(db, None)
    \/ \E db \in DatabaseArgs : CreateDatabase(db, None)
    \/ \E db \in DatabaseArgs \ protected_databases, force \in BOOLEAN :
          DropDatabase(db, None, force)
    \/ ListDatabases(None)

\* C10: each of database_exists, create_database, drop_database and
\* list_databases, called without a connection name, goes to the server
\* through the first configured connection flagged superuser; when no
\* configured connection has the flag it raises the no-superuser error, and
\* no engine is built and no statement awaited.
C10_RunsOnFirstSuperuser ==
    [][CalledWithoutName =>
        IF HasSuperuser(settings)
        THEN \E c \in BagToSet(calls') :
                /\ CopiesIn(c, calls') > CopiesIn(c, calls)
                /\ c.arg = None
                /\ FirstSuperuser(settings, c.name)
                /\ engineLog'[c.eng].name = c.name
        ELSE /\ result'.kind = "raise"
             /\ result'.err = NoSuperuser
             /\ engineLog' = engineLog
             /\ calls' = calls]_vars

\* The configuration of the manager the operations get from get_manager().
ManagerConfig == get_manager(Nothing)[1].config
\* Connection n is configured in cfg with is_superuser false.
NotFlagged(cfg, n) ==
    \E i \in 1..Len(cfg.connections) :
        cfg.connections[i].name = n /\ ~cfg.connections[i].is_superuser
\* The connection names an operation can be given.
ExplicitNames == AdminArgs \ {None}

\* The call fails with the not-superuser error; no engine is built, no
\* statement awaited, and the server is as it was.
RefusedNotSuperuser ==
    /\ result'.kind = "raise"
    /\ result'.err = NotSuperuser
    /\ engineLog' = engineLog
    /\ _engines' = _engines
    /\ _session_makers' = _session_makers
    /\ calls' = calls
    /\ databases' = databases

\* C11 as stated: each of the four operations, called with a connection
\* name that is configured without the superuser flag, fails with the
\* not-superuser error, for every database name.
C11_NotSuperuserAlwaysRefused ==
    [][\A n \in ExplicitNames :
        (/\ NotFlagged(ManagerConfig, n)
         /\ \/ \E db \in DatabaseArgs : DatabaseExists(db, n)
            \/ \E db \in DatabaseArgs : CreateDatabase(db, n)
            \/ \E db \in DatabaseArgs, force \in BOOLEAN : DropDatabase(db, n, force)
            \/ ListDatabases(n))
        => RefusedNotSuperuser]_vars

\* C11: each of the four operations, called with a connection name that is
\* configured without the superuser flag, fails with the not-superuser
\* error before any engine is built or statement awaited, the databases and
\* the engine cache unchanged, whether or not the database exists; for
\* drop_database this is so for every name outside the denylist.
C11_NotSuperuserRefused ==
    [][\A n \in ExplicitNames :
        (/\ NotFlagged(ManagerConfig, n)
         /\ \/ \E db \in DatabaseArgs : DatabaseExists(db, n)
            \/ \E db \in DatabaseArgs : CreateDatabase(db, n)
            \/ \E db \in DatabaseArgs \ protected_databases, force \in BOOLEAN :
                  DropDatabase(db, n, force)
            \/ ListDatabases(n))
        => RefusedNotSuperuser]_vars

\* drop_database of a database that exists was refused for a connection
\* without the flag.
C11_Witness ==
    /\ result.op = "drop_database"
    /\ result.arg \in ExplicitNames
    /\ result.err = NotSuperuser
    /\ result.db \in databases
    /\ NotFlagged(ManagerConfig, result.arg)

\* ------------------------------------- claims on database.py, run in turn
\* Entry e of main's history is the operation op on database db, and it
\* came back from the server with its statements answered: the connection
\* was resolved and no round trip failed.
Ran(e, op, db) ==
    /\ e.op = op
    /\ e.db = db
    /\ e.kind # "pending" /\ e.at # "" /\ e.err # OperationalError
Returned(e, value) == e.kind = "value" /\ e.value = value

\* C12: with main the only one changing the server, create_database(x) of
\* an absent x returns True and a database_exists(x) called next returns
\* True; create_database(x) of an x that exists returns False without
\* raising, having awaited no CREATE DATABASE, and pg_database is as before.
C12_CreateThenExists ==
    \A i \in 1..Len(seen) : \A x \in DatabaseArgs :
        LET e == seen[i] IN
        Ran(e, "create_database", x) =>
            IF x \notin e.before
            THEN /\ Returned(e, TRUE)
                 /\ (i < Len(seen) /\ Ran(seen[i + 1], "database_exists", x))
                        => Returned(seen[i + 1], TRUE)
            ELSE /\ Returned(e, FALSE)
                 /\ e.at = "select"
                 /\ e.after = e.before

\* main created a database that was absent and then found it.
C12_Witness ==
    /\ Len(seen) = 2
    /\ Ran(seen[1], "create_database", "app")
    /\ "app" \notin seen[1].before
    /\ Returned(seen[1], TRUE)
    /\ Ran(seen[2], "database_exists", "app")
    /\ Returned(seen[2], TRUE)

\* ------------------------------------------- claims on database.py, at large
\* C13: drop_database of a name in the denylist fails with the
\* protected-database error for every force, connection name and
\* configuration; the check comes before the resolution, so no manager or
\* engine is made and no statement awaited, and no database of the denylist
\* ever leaves pg_database.
C13_ProtectedNeverDropped ==
    [][/\ \A db \in protected_databases, n \in AdminArgs, force \in BOOLEAN :
            DropDatabase(db, n, force) =>
                /\ result'.kind = "raise"
                /\ result'.err = ProtectedDatabase
                /\ result'.db = db
                /\ UNCHANGED <<_manager, _engines, _session_makers, engineLog,
                               calls, databases>>
       /\ protected_databases \subseteq databases'
       /\ \A c \in BagToSet(calls') : c.db \notin protected_databases
                                        \/ c.op # "drop_database"]_vars

\* drop_database of the maintenance database was refused although the
\* settings hold no superuser connection.
C13_Witness ==
    /\ result.op = "drop_database"
    /\ result.db = "postgres"
    /\ result.err = ProtectedDatabase
    /\ ~HasSuperuser(settings)

\* C14: drop_database(x) of an x outside the denylist that is not in
\* pg_database returns False without raising, with force and without,
\* having awaited only the existence check (neither pg_terminate_backend
\* nor DROP DATABASE), and pg_database is as before.
C14_DropAbsentReturnsFalse ==
    \A i \in 1..Len(seen) : \A x \in DatabaseArgs \ protected_databases :
        LET e == seen[i] IN
        (Ran(e, "drop_database", x) /\ x \notin e.before) =>
            /\ Returned(e, FALSE)
            /\ e.at = "select"
            /\ e.after = e.before

\* main dropped, with force, a database that was not there.
C14_Witness ==
    \E i \in 1..Len(seen) :
        /\ Ran(seen[i], "drop_database", "app")
        /\ seen[i].force
        /\ "app" \notin seen[i].before
        /\ Returned(seen[i], FALSE)

\* C15: with force, drop_database awaits DROP DATABASE only once
\* pg_terminate_backend has ended the sessions on the database; when a
\* session connects after that and before the DROP, drop_database raises the
\* server's error, does not return True, and the database is still there.
C15_ForceDropRace ==
    [][/\ \A c \in BagToSet(calls') :
            (c.at = "drop" /\ c.force /\ CopiesIn(c, calls') > CopiesIn(c, calls)) =>
                /\ CopiesIn([c EXCEPT !.at = "terminate"], calls')
                       < CopiesIn([c EXCEPT !.at = "terminate"], calls)
                /\ c.db \notin connected'
       /\ \A c \in BagToSet(calls) :
            (/\ DropReturns(c, TRUE)
             /\ c.force
             /\ c.db \in connected
             /\ c.db \in databases) =>
                /\ result'.kind = "raise"
                /\ result'.err = ObjectInUse
                /\ c.db \in databases']_vars

\* A forced drop_database raised because of a session that came after the
\* termination; the database is still there.
C15_Witness ==
    /\ result.op = "drop_database"
    /\ result.force
    /\ result.err = ObjectInUse
    /\ result.at = "drop"
    /\ result.db \in databases

\* C16: with main the only one changing the server, drop_database(x) of an
\* x outside the denylist that exists and has no session of another client
\* on it returns True, and a database_exists(x) called next returns False;
\* create_database(x) of an absent x followed by drop_database(x) leaves
\* pg_database, and so what list_databases returns, as it was before the
\* two.
C16_DropThenAbsent ==
    \A i \in 1..Len(seen) : \A x \in DatabaseArgs \ protected_databases :
        LET e == seen[i] IN
        (Ran(e, "drop_database", x) /\ x \in e.before /\ e.err # ObjectInUse) =>
            /\ Returned(e, TRUE)
            /\ x \notin e.after
            /\ (i < Len(seen) /\ Ran(seen[i + 1], "database_exists", x))
                   => Returned(seen[i + 1], FALSE)
            /\ (/\ i > 1
                /\ Ran(seen[i - 1], "create_database", x)
                /\ x \notin seen[i - 1].before)
                   => /\ e.after = seen[i - 1].before
                      /\ Listing(e.after) = Listing(seen[i - 1].before)

\* main created a database that was absent and dropped it again.
C16_Witness ==
    /\ Len(seen) = 2
    /\ Ran(seen[1], "create_database", "app")
    /\ "app" \notin seen[1].before
    /\ Returned(seen[1], TRUE)
    /\ Ran(seen[2], "drop_database", "app")
    /\ Returned(seen[2], TRUE)

\* C17: list_databases returns the names of the databases in pg_database
\* that are no templates, as they are when the query is answered, each once
\* and in ascending order of name; a template database is never in it.
C17_ListSortedNonTemplate ==
    (result.op = "list_databases" /\ result.kind = "value") =>
        LET v == result.value IN
            /\ {v[i] : i \in 1..Len(v)} = databases \ Templates
            /\ \A i, j \in 1..Len(v) : i < j => Before(v[i], v[j])

\* list_databases returned two names, the server holding the templates too.
C17_Witness ==
    /\ result.op = "list_databases"
    /\ result.kind = "value"
    /\ result.value = <<"app", "postgres">>
    /\ Templates \subseteq databases

\* C18: is_superuser_connection(name) and list_connections() are answered
\* from the manager's configuration alone: whatever the caches hold,
\* is_superuser_connection returns the is_superuser flag configured for the
\* connection the name resolves to, list_connections returns the configured
\* names, each once, and neither changes the engine cache, the factory
\* cache, the engines built or the engines disposed.
C18_AnsweredFromConfiguration ==
    [][/\ \A name \in ArgNames :
            IsSuperuserConnection(name) =>
                /\ UNCHANGED <<_manager, _engines, _session_makers, engineLog, disposed>>
                /\ \A i \in 1..Len(Config.connections) :
                       Config.connections[i].name = OrDefault(Config, name) =>
                           /\ last'.kind = "value"
                           /\ last'.bool = Config.connections[i].is_superuser
       /\ ListConnections =>
            /\ UNCHANGED <<_manager, _engines, _session_makers, engineLog, disposed>>
            /\ last'.kind = "value"
            /\ Len(last'.names) = Cardinality(ConnectionNames(Config))
            /\ {last'.names[i] : i \in 1..Len(last'.names)} = ConnectionNames(Config)]_vars

\* is_superuser_connection answered True after engines were built and
\* close_all emptied the caches.
C18_Witness ==
    /\ last.op = "is_superuser_connection"
    /\ last.kind = "value"
    /\ last.bool
    /\ engineLog # << >>
    /\ clears > 0
    /\ _engines = << >>

\* C19: while the application starts, a health check of startup_database
\* that comes back, successful or failed, makes startup_database go on: with
\* the next configured connection when there is one, and otherwise it
\* returns the manager with an engine in the cache for every configured
\* connection name; it never raises, and a startup_database that is
\* suspended always comes to return.
C19_StartupCompletes ==
    /\ [][\A f \in BagToSet(inflight), rt \in RoundTrips :
            (f.op = "startup_database" /\ RoundTripReturns(f, rt)) =>
                /\ UNCHANGED _manager
                /\ IF f.idx < Len(Config.connections)
                   THEN \E g \in BagToSet(inflight') :
                            /\ g.op = "startup_database"
                            /\ g.idx = f.idx + 1
                            /\ engineLog'[g.eng].name = Config.connections[g.idx].name
                            /\ CopiesIn(g, inflight') = CopiesIn(g, inflight) + 1
                   ELSE /\ last'.op = "startup_database"
                        /\ last'.kind = "value"
                        /\ \A name \in ConnectionNames(Config) :
                               /\ Has(_engines', name)
                               /\ engineLog'[Get(_engines', name)].name = name]_vars
    /\ [](last.op = "startup_database" => last.kind = "value")
    /\ (\E f \in BagToSet(inflight) : f.op = "startup_database")
           ~> (last.op = "startup_database" /\ last.kind = "value")

\* startup_database returned with two configured connections in the cache,
\* the health check of the last one having failed.
C19_Witness ==
    /\ last.op = "startup_database"
    /\ last.kind = "value"
    /\ last.err = "unreachable"
    /\ Len(Config.connections) = 2
    /\ Keys(_engines) = ConnectionNames(Config)

\* The fields of the input that are given and lie outside their bounds.
OutOfBounds(env) ==
    {f \in {"port"} : env.port # Nothing /\ (env.port[1] < 1 \/ env.port[1] > 65535)}
    \cup {f \in {"pool_size"} : env.pool_size # Nothing /\ ~(env.pool_size[1] > 0)}
    \cup {f \in {"max_overflow"} :
              env.max_overflow # Nothing /\ ~(env.max_overflow[1] >= 0)}

\* C20: a connection that was loaded has 1 <= port <= 65535, pool_size > 0
\* and max_overflow >= 0, with the values of the input where it gives them;
\* an input with a port, pool_size or max_overflow outside its bound is
\* rejected with a validation error naming the field, and what was rejected
\* stays rejected: no engine is ever built from it.
C20_BoundsEnforcedAtLoad ==
    /\ [](load.at \in {"loaded", "engine"} =>
            LET conn == load.conn[1] IN
                /\ 1 <= conn.port /\ conn.port <= 65535
                /\ conn.pool_size > 0
                /\ conn.max_overflow >= 0
                /\ load.env.port # Nothing => conn.port = load.env.port[1]
                /\ load.env.pool_size # Nothing => conn.pool_size = load.env.pool_size[1]
                /\ load.env.max_overflow # Nothing
                       => conn.max_overflow = load.env.max_overflow[1])
    /\ [][/\ (LoadConnection /\ OutOfBounds(load.env) # {}) =>
                /\ load'.at = "rejected"
                /\ load'.errors = OutOfBounds(load.env)
                /\ load'.conn = Nothing
          /\ load.at = "rejected" => load'.at = "rejected"
          /\ load'.at = "engine" => load.at \in {"loaded", "engine"}]_vars

\* A connection with port 65536 and the other fields within their bounds
\* was rejected for its port.
C20_Witness ==
    /\ load.at = "rejected"
    /\ load.env.port = Some(65536)
    /\ load.env.pool_size = Some(1)
    /\ load.errors = {"port"}

\* A declared connection that misses its host or has a numeric field
\* outside its bound.
Malformed(d) == d.host = Nothing \/ OutOfBounds(d.env) # {}
\* The environment declares a malformed connection.
MalformedEnviron == \E i \in 1..Len(importing.environ) : Malformed(importing.environ[i])

\* C21: with a malformed connection declared the import of settings.py
\* fails: the first load enters the handler, the handler ends with the
\* exception leaving the module, and `settings` is never bound.  Whenever
\* the module is ready, `settings` holds every declared connection, none of
\* them malformed, or, after a load that failed, no connection at all with
\* the fallback line printed.
C21_LoadFailsFast ==
    /\ [](importing.at = "ready" =>
            \/ /\ ~MalformedEnviron
               /\ "error" \notin importing.printed
               /\ Len(settings.connections) = Len(importing.environ)
               /\ \A i \in 1..Len(importing.environ) :
                      /\ settings.connections[i].name = importing.environ[i].name
                      /\ settings.connections[i].is_superuser
                             = importing.environ[i].is_superuser
            \/ /\ "error" \in importing.printed
               /\ "fallback" \in importing.printed
               /\ settings.connections = << >>)
    /\ [](MalformedEnviron => importing.at # "ready" /\ settings = Unbound)
    /\ [][MalformedEnviron =>
            /\ TryLoad => importing'.at = "except"
            /\ Fallback => importing'.at = "failed"]_vars

\* The import failed for an environment that declares a well-formed
\* connection and one with port 0.
C21_Witness ==
    /\ importing.at = "failed"
    /\ Len(importing.environ) = 2
    /\ ~Malformed(importing.environ[1])
    /\ importing.environ[2].env.port = Some(0)
    /\ importing.environ[2].host # Nothing
    /\ settings = Unbound

\* C22: the names with a cached engine are the names with a cached session
\* factory, the factory cached under a name is bound to the engine cached
\* under that name, and when get_session_maker has returned an engine is in
\* the cache under the resolved name and the factory returned is the one
\* bound to it.
C22_FactoriesFollowEngines ==
    /\ Keys(_session_makers) = Keys(_engines)
    /\ Len(_session_makers) = Len(_engines)
    /\ \A name \in Keys(_engines) : Get(_session_makers, name) = Get(_engines, name)
    /\ (last.op = "get_session_maker" /\ last.kind = "value") =>
           /\ Has(_engines, OrDefault(Config, last.arg))
           /\ last.eng = Get(_engines, OrDefault(Config, last.arg))
           /\ last.eng = Get(_session_makers, OrDefault(Config, last.arg))

\* get_session_maker returned the factory of an engine that was built after
\* close_all had emptied both caches.
C22_Witness ==
    /\ last.op = "get_session_maker"
    /\ last.kind = "value"
    /\ clears > 0
    /\ Keys(_session_makers) = {"default"}
    /\ last.eng = Get(_engines, "default")
    /\ last.eng > 1

\* C23: when close_all or shutdown_database has finished, whatever calls of
\* other tasks ran while it was suspended in a disposal, every engine ever
\* built is in the cache or disposed, and it has not failed because the
\* cache changed while it iterated.
C23_NoPoolLeakedByShutdown ==
    (last.op \in CloseOps /\ last.kind # "none") =>
        /\ \A e \in 1..Len(engineLog) : e \in Values(_engines) \/ e \in disposed
        /\ last.err # DictChangedSize

\* C24: no engine in the cache has been disposed, also while close_all is
\* suspended between a disposal and the clearing of the cache, and the
\* engine that get_engine returns, or that the factory or session returned
\* by get_session_maker or get_session is bound to, has not been disposed.
C24_NoDisposedHandleHandedOut ==
    /\ \A name \in Keys(_engines) : Get(_engines, name) \notin disposed
    /\ (/\ last.op \in {"get_engine", "get_session_maker", "get_session"}
        /\ last.kind = "value")
           => last.eng \notin disposed

\* C25: on a server that other clients and other create_database calls
\* change, a create_database whose CREATE DATABASE comes back answers True
\* exactly when that statement made the database, which was absent until
\* then; when the statement fails, the database having been made by someone
\* else since the existence check or the connection having broken, the
\* error is raised, nothing is returned and pg_database stays as it is.  No
\* create_database answers True in any other step.
C25_TrueOnlyForOwnCreate ==
    [][\A c \in BagToSet(calls) : \A ok \in BOOLEAN :
          /\ CreateReturns(c, ok) =>
                IF ok /\ c.db \notin databases
                THEN /\ result'.kind = "value" /\ result'.value = TRUE
                     /\ databases' = databases \cup {c.db}
                ELSE /\ result'.kind = "raise"
                     /\ result'.err = (IF ok THEN DuplicateDatabase ELSE OperationalError)
                     /\ databases' = databases
          /\ (/\ c.op = "create_database"
              /\ SelectReturns(c, ok)
              /\ result'.kind = "value")
                 => /\ result'.value = FALSE
                    /\ c.db \in databases
                    /\ databases' = databases]_vars

\* A create_database whose existence check found nothing had its CREATE
\* DATABASE refused, the database having been made in between.
C25_Witness ==
    /\ result.op = "create_database"
    /\ result.at = "create"
    /\ result.kind = "raise"
    /\ result.err = DuplicateDatabase
    /\ result.db \in databases

\* C26: when an operation of database.py is called without a connection
\* name and the global settings flag a connection as superuser, the name
\* the operation resolves, the first one flagged in the settings, is a
\* connection of the configuration of the manager it uses and is flagged
\* superuser there, whatever configuration the manager was created from.
C26_ResolvedNameIsSuperuserOfManager ==
    [][(CalledWithoutName /\ HasSuperuser(settings)) =>
          \A n \in ConnectionNames(settings) :
              FirstSuperuser(settings, n) =>
                  \E i \in 1..Len(ManagerConfig.connections) :
                      /\ ManagerConfig.connections[i].name = n
                      /\ ManagerConfig.connections[i].is_superuser]_vars

\* C27: whatever get_manager, get_db_manager, startup_database and
\* shutdown_database calls are made, with whatever configuration, the
\* manager that exists is the first and only one constructed, every
\* get_manager call returns it, no call replaces it, and its configuration
\* is the one of the call that constructed it: a configuration passed later
\* changes nothing.
C27_OneManager ==
    /\ [](Exists =>
            /\ _manager[1].id = 1
            /\ \A config \in ConfigArgs \cup {Some(settings)} :
                   get_manager(config) = _manager)
    /\ [][/\ Exists => _manager' = _manager
          /\ ~Exists =>
               /\ \A config \in ConfigArgs :
                      (GetManager(config) \/ StartupDatabase(config))
                          => _manager' = Some(DatabaseManager(IF config = Nothing THEN settings
                                                               ELSE config[1], 1))
               /\ (GetDbManager \/ ShutdownDatabase)
                      => _manager' = Some(DatabaseManager(settings, 1))]_vars

\* get_manager returned the manager that an earlier call had built from a
\* configuration other than the settings.
C27_Witness ==
    /\ last.op = "get_manager"
    /\ last.cached
    /\ Exists
    /\ Config # settings
    /\ _manager[1].id = 1

\* The awaited call `what` on the session of q ended with `ending`.
Ended(q, what, ending) == \E i \in 1..Len(q.ops) : q.ops[i] = <<what, ending>>

\* C28: when the unit of work has returned and the commit fails, rollback
\* is called on the session, then close, and the generator leaves with the
\* failure of the commit; and no generator that yielded a session is left
\* with the session neither committed nor rolled back.
C28_CommitFailureRolledBack ==
    \A r \in Requests :
        LET q == req[r] IN
        Left(r) =>
            /\ \A ending \in Endings \ {"ok"} :
                   Ended(q, "commit", ending) =>
                       /\ Calls(q) = <<"commit", "rollback", "close">>
                       /\ q.raised = Error("commit", ending)
            /\ Ended(q, "commit", "ok") \/ Called(Calls(q), "rollback")

\* C29: the connections checked out of an engine's pool are the ones of
\* the operations and health checks still suspended inside their block:
\* an operation that has returned or raised, a failed statement included,
\* has given its connection back, so with none of them in flight no
\* connection is checked out, as before the calls.
C29_ConnectionsReleased ==
    /\ BagToSet(checkedout) \subseteq 1..Len(engineLog)
    /\ \A eng \in 1..Len(engineLog) :
           CopiesIn(eng, checkedout) =
               BagCardinality([c \in {x \in BagToSet(calls) : x.eng = eng}
                                   |-> CopiesIn(c, calls)])
               + BagCardinality([f \in {x \in BagToSet(inflight) :
                                            x.at = "connect" /\ x.eng = eng}
                                     |-> CopiesIn(f, inflight)])

\* A create_database whose CREATE DATABASE failed has raised, and no
\* connection is checked out.
C29_Witness ==
    /\ result.op = "create_database"
    /\ result.kind = "raise"
    /\ result.err = OperationalError
    /\ engineLog # << >>
    /\ calls = EmptyBag
    /\ inflight = EmptyBag
    /\ checkedout = EmptyBag

\* C30: database_exists answers from the server and changes nothing there:
\* the step in which its SELECT comes back returns whether the database is
\* in pg_database at that moment, whatever an earlier call returned and
\* whoever created or dropped the database since, and neither that step nor
\* the call up to the SELECT changes pg_database or the sessions on it.
C30_ExistsReadsServerEachCall ==
    [][/\ \A c \in BagToSet(calls) : \A ok \in BOOLEAN :
            (c.op = "database_exists" /\ SelectReturns(c, ok)) =>
                /\ databases' = databases
                /\ connected' = connected
                /\ result'.op = "database_exists"
                /\ IF ok
                   THEN /\ result'.kind = "value"
                        /\ result'.value = (c.db \in databases)
                   ELSE /\ result'.kind = "raise"
                        /\ result'.err = OperationalError
       /\ \A db \in DatabaseArgs : \A name \in AdminArgs :
            DatabaseExists(db, name) =>
                /\ databases' = databases
                /\ connected' = connected]_vars

\* Two calls of database_exists for one database, one after the other: the
\* first answered False, another client created the database, and the
\* second answered True.
C30_Witness ==
    /\ Len(seen) = 2
    /\ seen[1].op = "database_exists"
    /\ seen[2].op = "database_exists"
    /\ seen[1].db = seen[2].db
    /\ seen[1].kind = "value"
    /\ seen[2].kind = "value"
    /\ seen[1].value = FALSE
    /\ seen[2].value = TRUE
    /\ seen[1].before = seen[1].after
    /\ seen[2].before = seen[2].after
    /\ seen[2].db \in databases

\* C31: get_engine, get_session_maker and get_session called without a
\* connection name act on default_connection: when it names a configured
\* connection they return the handle get_engine(default_connection) returns
\* in the same state, which is then cached under that name; when it names
\* none they raise the unknown-connection error and leave both caches and
\* the log of built engines as they were.  Building the manager does not
\* look at default_connection: it succeeds for every configuration.
C31_DefaultResolvedAtFirstUse ==
    [][/\ Exists =>
            ((GetEngine(None) \/ GetSessionMaker(None) \/ GetSession(None)) =>
                LET dflt == Config.default_connection
                    named == get_engine(_manager[1], dflt)
                IN  IF dflt \in ConnectionNames(Config)
                    THEN /\ last'.kind = "value"
                         /\ last'.eng = named.eng
                         /\ _engines' = named.engines
                         /\ Get(_engines', dflt) = last'.eng
                         /\ engineLog'[last'.eng].name = dflt
                    ELSE /\ last'.kind = "raise"
                         /\ last'.err = UnknownConnection
                         /\ UNCHANGED <<_engines, _session_makers, engineLog>>)
       /\ \A config \in ConfigArgs :
            GetManager(config) => _manager' # Nothing /\ last'.kind = "value"]_vars

\* The manager was built from settings whose default_connection names no
\* connection, and the first get_engine() raised with nothing cached.
C31_Witness ==
    /\ Exists
    /\ Config.default_connection \notin ConnectionNames(Config)
    /\ last.op = "get_engine"
    /\ last.arg = None
    /\ last.kind = "raise"
    /\ last.err = UnknownConnection
    /\ _engines = << >>
    /\ engineLog = << >>

\* C32: every engine is built with the echo of its connection when the
\* connection's echo was given, as true or as false, and with the global
\* echo when it was left out; a connection given echo=false under a global
\* echo of true has an engine with echo off.
C32_ExplicitEchoOverridesGlobal ==
    Exists =>
        \A e \in 1..Len(engineLog) :
            LET conn_settings == get_connection(Config, engineLog[e].name).conn
            IN  engineLog[e].echo = IF conn_settings.echo_set
                                    THEN conn_settings.echo
                                    ELSE Config.echo

\* C33: the session a request is given by get_session is a new one: it was
\* made in that step by the factory of the connection's cached engine, no
\* request holds or held it and it is none of the sessions made before, so
\* no two requests ever share a session; the step that makes it awaits
\* nothing on it (no statement, no commit, no rollback) and takes no
\* connection from any pool.
C33_NewSessionPerRequest ==
    [][/\ \A r \in Requests : \A name \in {"default", "ghost"} :
            BeginRequest(r, name) =>
                /\ checkedout' = checkedout
                /\ req'[r].session # 0 =>
                    /\ req'[r].session \notin 1..Len(sessionLog)
                    /\ req'[r].session \notin {req[q].session : q \in Requests}
                    /\ sessionLog' = Append(sessionLog, sessionLog'[req'[r].session])
                    /\ sessionLog'[req'[r].session].engine
                           = Get(_engines', OrDefault(Config', name))
                    /\ req'[r].at = "yield"
                    /\ req'[r].ops = << >>
       /\ \A r, q \in Requests :
            (r # q /\ req'[r].session # 0) => req'[r].session # req'[q].session]_vars

\* Two requests are in their unit of work at the same time, each with its
\* own session, both sessions bound to the same engine.
C33_Witness ==
    /\ req[1].at = "yield"
    /\ req[2].at = "yield"
    /\ req[1].session # req[2].session
    /\ sessionLog[req[1].session].engine = sessionLog[req[2].session].engine
    /\ checkedout = EmptyBag

====
